---- MODULE Spec2Model ----
(***************************************************************************)
(* Flow manager (src/src/controller/flow_manager.py, version 5.0) and its  *)
(* configuration loader (src/src/controller/config_loader.py).             *)
(*                                                                         *)
(* Units: latencies, jitters and thresholds are integers (ms); all values  *)
(* the model feeds are integers, so round(iqr, 3) is exact and             *)
(* jitter < max_jitter_ms * 0.5 is 2 * jitter < max_jitter_ms.             *)
(* Bandwidths are integer Mbps as in the code.  An Optional value is a     *)
(* sequence: <<>> is None, <<v>> is the value v.                           *)
(***************************************************************************)
EXTENDS Integers, Sequences, FiniteSets, TLC

VARIABLES
    config,               \* SystemConfig loaded at startup (immutable)
    windows,              \* MetricsClient.windows: app name -> rolling window
    current_bandwidths,   \* BandwidthController.current_bandwidths: deployment -> Mbps
    cycle,                \* control_loop's cycle counter
    udp_jitter_gauge,     \* flowmanager_udp_jitter_ms, by app name
    tcp_jitter_gauge,     \* flowmanager_tcp_jitter_ms, by app name
    app_states,           \* app_states of the last cycle (insertion-ordered dict)
    decision,             \* decision of the last cycle
    patch_calls,          \* per-target trace of the last _apply_bandwidth_changes
    shadow,               \* a second controller fed the same inputs minus TCP samples
    scenario,             \* bookkeeping of a sustained-signal run
    ingested,             \* history: what each fetch of the last cycle returned
                          \* and every sample ever appended, by app name
    running,              \* control_loop is still iterating (no exception left it)
    probe,                \* network_probe.py: its gauges and its cycle counter
    reflector,            \* udp_server.py: its socket and its loop
    orchestrator          \* the Kubernetes API: deployments and their annotations

vars == <<config, windows, current_bandwidths, cycle, udp_jitter_gauge,
          tcp_jitter_gauge, app_states, decision, patch_calls, shadow, scenario,
          ingested, running, probe, reflector, orchestrator>>

----------------------------------------------------------------------------
(* Bounds of the model *)

MaxCycles == 6
MaxRun == 6
MaxTicks == 50
JitterLen == 6
ScrapeTicks == 5
DecisionTicks == 1
PairTicks == 5

(* Latency samples (ms) a scrape can carry. *)
Samples == {0, 6}

None == <<>>
Some(v) == <<v>>

Max(a, b) == IF a >= b THEN a ELSE b
Min(a, b) == IF a <= b THEN a ELSE b

Range(s) == {s[i] : i \in 1..Len(s)}

----------------------------------------------------------------------------
(* config_loader.py *)

CriticalAppConfig(n, proto, mj, prio) ==
    [name |-> n, protocol |-> proto, max_jitter_ms |-> mj, priority |-> prio]

BestEffortTarget(dep, ns, init) ==
    [deployment |-> dep, namespace |-> ns, initial_bandwidth |-> init]

ControlConfig(w, up, lo, hi) ==
    [window_size |-> w, step_up |-> up, min_bandwidth |-> lo, max_bandwidth |-> hi]

(* list.sort(key=priority, reverse=True): stable, so equal priorities keep *)
(* their order in the file.                                                *)
RECURSIVE InsertByPriority(_, _)
InsertByPriority(sorted, app) ==
    IF sorted = <<>> THEN <<app>>
    ELSE IF Head(sorted).priority >= app.priority
         THEN <<Head(sorted)>> \o InsertByPriority(Tail(sorted), app)
         ELSE <<app>> \o sorted

RECURSIVE SortByPriority(_)
SortByPriority(apps) ==
    IF apps = <<>> THEN <<>>
    ELSE InsertByPriority(SortByPriority(SubSeq(apps, 1, Len(apps) - 1)),
                          apps[Len(apps)])

(* ConfigLoader._parse_config: file is [control, critical_apps, best_effort_targets] *)
ParseConfig(file) ==
    [control |-> file.control,
     critical_apps |-> SortByPriority(file.critical_apps),
     best_effort_targets |-> file.best_effort_targets]

(* ConfigLoader.validate *)
Validate(cfg) ==
    /\ cfg.critical_apps # <<>>
    /\ cfg.best_effort_targets # <<>>
    /\ cfg.control.min_bandwidth < cfg.control.max_bandwidth
    /\ \A i \in 1..Len(cfg.critical_apps) :
           cfg.critical_apps[i].protocol \in {"TCP", "UDP"}

----------------------------------------------------------------------------
(* MetricsClient *)

(* sorted(window) *)
RECURSIVE InsertSorted(_, _)
InsertSorted(sorted, x) ==
    IF sorted = <<>> THEN <<x>>
    ELSE IF Head(sorted) <= x
         THEN <<Head(sorted)>> \o InsertSorted(Tail(sorted), x)
         ELSE <<x>> \o sorted

RECURSIVE Sorted(_)
Sorted(window) ==
    IF window = <<>> THEN <<>>
    ELSE InsertSorted(Sorted(Tail(window)), Head(window))

(* q1_idx = n // 4 and q3_idx = (3 * n) // 4, 0-based *)
Q1Index(n) == n \div 4

(* Mutant: the upper quartile index swings with the parity of n *)
Q3IndexSwinging(n) == IF n % 2 = 0 THEN n - 1 ELSE n - 3

Q3Index(n) == (3 * n) \div 4

(* sorted_samples[q1_idx] and sorted_samples[q3_idx] of a non-empty window *)
Q1(window) == Sorted(window)[Q1Index(Len(window)) + 1]
Q3(window) == Sorted(window)[Q3Index(Len(window)) + 1]

(* round(iqr, 3) of a non-negative iqr.  Latencies are integers counting   *)
(* per_ms-ths of a millisecond: with per_ms = 1 (whole milliseconds) the   *)
(* rounding changes nothing, with per_ms = 10000 it goes to the nearest    *)
(* multiple of 10.  Inputs are kept off the halfway cases, where the       *)
(* binary value of the float decides.                                      *)
Round3(iqr, per_ms) ==
    IF per_ms <= 1000 THEN iqr
    ELSE LET q == per_ms \div 1000
         IN  ((iqr + q \div 2) \div q) * q

(* Mutant: the upper quartile is taken one rank higher when 4 does not     *)
(* divide 3n                                                               *)
JitterIqrUpperRank(window, per_ms) ==
    IF Len(window) < 5 THEN 0
    ELSE LET sorted_samples == Sorted(window)
             n == Len(sorted_samples)
         IN  Round3(sorted_samples[((3 * n + 3) \div 4) + 1]
                        - sorted_samples[(n \div 4) + 1], per_ms)

(* MetricsClient._calculate_jitter_iqr for latencies counted in            *)
(* per_ms-ths of a millisecond                                             *)
JitterIqr(window, per_ms) ==
    IF Len(window) < 5 THEN 0
    ELSE Round3(Q3(window) - Q1(window), per_ms)

(* MetricsClient._calculate_jitter_iqr for latencies in whole milliseconds *)
CalculateJitterIqr(window) == JitterIqr(window, 1)

(* Mutant: a full window drops its newest sample for the new one *)
DequeAppendEvictsNewest(window, x, maxlen) ==
    IF maxlen = 0 THEN <<>>
    ELSE IF Len(window) >= maxlen
         THEN Append(SubSeq(window, 1, Len(window) - 1), x)
    ELSE Append(window, x)

(* deque(maxlen=window_size).append *)
DequeAppend(window, x, maxlen) ==
    IF maxlen = 0 THEN <<>>
    ELSE IF Len(window) >= maxlen THEN Append(Tail(window), x)
    ELSE Append(window, x)

(* Outcome of the GET and the parse of the app's own metric line:          *)
(*   "error"   the call returns None with the window untouched: a          *)
(*             requests.RequestException (timeout, refused, HTTP status),  *)
(*             no line starting with the metric name, or float() raising   *)
(*             on the line's last field; the three are one outcome here    *)
(*             because the handler treats them alike                       *)
(*   "number"  the line carries the latency `value`                        *)
FetchOutcomes ==
    {[kind |-> k, value |-> 0] : k \in {"error"}}
        \cup {[kind |-> "number", value |-> v] : v \in Samples}

(* The same with the three ways to return None kept apart:                 *)
(*   "error"     requests.RequestException (timeout, refused, HTTP status) *)
(*   "missing"   no line starts with the metric name                       *)
(*   "malformed" float() raises on the line's last field                   *)
ScrapeOutcomes ==
    FetchOutcomes \cup {[kind |-> k, value |-> 0] : k \in {"missing", "malformed"}}

(* Mutant: the quartile difference is taken of any non-empty window *)
JitterAfterAppendUnguarded(window) ==
    IF window = <<>> THEN 0
    ELSE LET sorted_samples == Sorted(window)
             n == Len(sorted_samples)
         IN  sorted_samples[((3 * n) \div 4) + 1] - sorted_samples[(n \div 4) + 1]

(* Jitter returned by fetch_and_calculate_jitter after the append *)
JitterAfterAppend(window) ==
    IF Len(window) >= 5 THEN CalculateJitterIqr(window) ELSE 0

(* Mutant: a fetch that fails appends a penalty sample *)
FetchAndCalculateJitterPenalty(wins, app, outcome, window_size) ==
    LET old == IF app.name \in DOMAIN wins THEN wins[app.name] ELSE <<>>
        x == IF outcome.kind = "number" THEN outcome.value ELSE 6
        new == IF Len(old) >= window_size THEN Append(Tail(old), x)
               ELSE Append(old, x)
    IN  [windows |-> [n \in DOMAIN wins \cup {app.name} |->
                         IF n = app.name THEN new ELSE wins[n]],
         result |-> IF outcome.kind = "number"
                    THEN Some([latency |-> x,
                               jitter |-> IF Len(new) >= 5
                                          THEN CalculateJitterIqr(new) ELSE 0])
                    ELSE None]

(* MetricsClient.fetch_and_calculate_jitter: the windows afterwards and    *)
(* the result, None or (latency, jitter).                                  *)
FetchAndCalculateJitter(wins, app, outcome, window_size) ==
    IF outcome.kind # "number" \/ app.protocol \notin {"UDP", "TCP"}
    THEN [windows |-> wins, result |-> None]
    ELSE LET old == IF app.name \in DOMAIN wins THEN wins[app.name] ELSE <<>>
             new == DequeAppend(old, outcome.value, window_size)
             wins2 == [n \in DOMAIN wins \cup {app.name} |->
                          IF n = app.name THEN new ELSE wins[n]]
         IN  [windows |-> wins2,
              result |-> Some([latency |-> outcome.value,
                               jitter |-> JitterAfterAppend(new)])]

----------------------------------------------------------------------------
(* BandwidthController *)

(* Result of _get_current_bandwidth at startup: None when the read or the  *)
(* parse raises, else the integer read from the annotation.                *)
AnnotationValues == {0, 5, 995, 2000}
ReadOutcomes == {None} \cup {Some(v) : v \in AnnotationValues}

Deployments(targets) == {targets[i].deployment : i \in 1..Len(targets)}

(* __init__, the loop filling current_bandwidths: `bw if bw else initial`  *)
(* (None and 0 are both falsy); the dict is keyed by deployment name only. *)
RECURSIVE InitBandwidths(_, _, _, _)
InitBandwidths(targets, reads, i, bws) ==
    IF i > Len(targets) THEN bws
    ELSE LET t == targets[i]
             bw == reads[i]
             v == IF bw # None /\ bw[1] # 0 THEN bw[1] ELSE t.initial_bandwidth
         IN  InitBandwidths(targets, reads, i + 1,
                 [d \in DOMAIN bws \cup {t.deployment} |->
                     IF d = t.deployment THEN v ELSE bws[d]])

(* app_states[app.name] = {...}: a dict keeps the position of a key it     *)
(* already holds and appends a new one.                                    *)
DictPut(states, st) ==
    IF \E i \in 1..Len(states) : states[i].name = st.name
    THEN [i \in 1..Len(states) |-> IF states[i].name = st.name THEN st ELSE states[i]]
    ELSE Append(states, st)

(* control_loop, step 1 for one app: the SLA evaluation of a measurement *)
AppState(app, result) ==
    [name |-> app.name, app |-> app, latency |-> result.latency,
     jitter |-> result.jitter, violation |-> result.jitter > app.max_jitter_ms]

(* control_loop, step 1 for one app: `jitter / app.max_jitter_ms if        *)
(* violation else 0.0` raises ZeroDivisionError for a violated threshold   *)
(* of 0; nothing in control_loop catches it                                *)
SeverityRaises(app, result) ==
    result.jitter > app.max_jitter_ms /\ app.max_jitter_ms = 0

(* control_loop, step 1: measure all critical apps in config order.  m is  *)
(* [windows, app_states, udp_gauge, tcp_gauge, raised]; fetch[i] is the    *)
(* outcome of the i-th app's own GET.  The loop is left at the app whose   *)
(* evaluation raises, its sample already appended to its window.           *)
RECURSIVE MeasureApps(_, _, _, _, _)
MeasureApps(apps, fetch, window_size, i, m) ==
    IF i > Len(apps) THEN m
    ELSE LET app == apps[i]
             f == FetchAndCalculateJitter(m.windows, app, fetch[i], window_size)
         IN  IF f.result = None
             THEN MeasureApps(apps, fetch, window_size, i + 1,
                              [m EXCEPT !.windows = f.windows])
             ELSE LET r == f.result[1]
                      setg(g) == [n \in DOMAIN g \cup {app.name} |->
                                     IF n = app.name THEN r.jitter ELSE g[n]]
                  IN  IF SeverityRaises(app, r)
                      THEN [m EXCEPT !.windows = f.windows, !.raised = TRUE]
                      ELSE
                      MeasureApps(apps, fetch, window_size, i + 1,
                        [windows |-> f.windows, raised |-> FALSE,
                         app_states |-> DictPut(m.app_states, AppState(app, r)),
                         udp_gauge |-> IF app.protocol = "UDP"
                                       THEN setg(m.udp_gauge) ELSE m.udp_gauge,
                         tcp_gauge |-> IF app.protocol = "TCP"
                                       THEN setg(m.tcp_gauge) ELSE m.tcp_gauge])

(* Mutant: the protocol of a violating app is not looked at *)
RECURSIVE WorstViolationAnyProtocol(_, _, _)
WorstViolationAnyProtocol(states, i, worst) ==
    IF i > Len(states) THEN worst
    ELSE LET state == states[i]
         IN  IF /\ state.violation
                /\ (worst = None \/ state.app.priority > worst[1].app.priority)
             THEN WorstViolationAnyProtocol(states, i + 1, Some(state))
             ELSE WorstViolationAnyProtocol(states, i + 1, worst)

(* Mutant: a later violator of equal priority replaces the earlier one *)
RECURSIVE WorstViolationLastWins(_, _, _)
WorstViolationLastWins(states, i, worst) ==
    IF i > Len(states) THEN worst
    ELSE LET state == states[i]
         IN  IF /\ state.violation
                /\ state.app.protocol = "UDP"
                /\ (worst = None \/ state.app.priority >= worst[1].app.priority)
             THEN WorstViolationLastWins(states, i + 1, Some(state))
             ELSE WorstViolationLastWins(states, i + 1, worst)

(* _make_control_decision, the search for the worst violation: the first   *)
(* violating UDP state of strictly greatest priority, None if there is none *)
RECURSIVE WorstViolation(_, _, _)
WorstViolation(states, i, worst) ==
    IF i > Len(states) THEN worst
    ELSE LET state == states[i]
         IN  IF /\ state.violation
                /\ state.app.protocol = "UDP"
                /\ (worst = None \/ state.app.priority > worst[1].app.priority)
             THEN WorstViolation(states, i + 1, Some(state))
             ELSE WorstViolation(states, i + 1, worst)

(* _make_control_decision, the stable condition over the UDP states *)
AllStable(states) ==
    LET udp == {i \in 1..Len(states) : states[i].app.protocol = "UDP"}
    IN  IF udp # {}
        THEN \A i \in udp : 2 * states[i].jitter < states[i].app.max_jitter_ms
        ELSE FALSE

(* _make_control_decision; reduction_percent is in percent (0.20 -> 20);   *)
(* reason keeps the part of the text that varies: the app named.           *)
MakeControlDecision(states) ==
    LET worst_violation == WorstViolation(states, 1, None)
    IN  IF worst_violation # None
        THEN [action |-> "throttle", reason |-> worst_violation[1].app.name,
              reduction_percent |-> 20]
        ELSE IF AllStable(states)
        THEN [action |-> "release", reason |-> "All critical apps stable",
              reduction_percent |-> 0]
        ELSE [action |-> "maintain", reason |-> "Apps within acceptable range",
              reduction_percent |-> 0]

(* Mutant: the reduction is rounded to the nearest integer *)
ReductionRounded(current_bw, reduction_percent) ==
    (current_bw * reduction_percent + 50) \div 100

(* Mutant: the reduction is rounded up *)
ReductionCeiling(current_bw, reduction_percent) ==
    (current_bw * reduction_percent + 99) \div 100

(* int(current_bw * reduction_percent): the product is a float and int()   *)
(* truncates toward zero; for every integer |current_bw| <= 200000 the     *)
(* float product of current_bw and 0.20 truncates to the exact quotient.   *)
Reduction(current_bw, reduction_percent) ==
    IF current_bw >= 0 THEN (current_bw * reduction_percent) \div 100
    ELSE -(((-current_bw) * reduction_percent) \div 100)

(* Mutant: the throttled value is the floor of the scaled bandwidth *)
NewBandwidthScaled(action, current_bw, reduction_percent, control) ==
    IF action = "throttle"
    THEN Max(control.min_bandwidth, (current_bw * (100 - reduction_percent)) \div 100)
    ELSE Min(control.max_bandwidth, current_bw + 10)

(* Mutant: the throttled value stops one above the floor *)
NewBandwidthFloorOffByOne(action, current_bw, reduction_percent, control) ==
    IF action = "throttle"
    THEN Max(control.min_bandwidth + 1,
             current_bw - ((current_bw * reduction_percent) \div 100))
    ELSE Min(control.max_bandwidth, current_bw + 10)

(* Mutant: the computed value is not clamped to the bounds *)
NewBandwidthUnclamped(action, current_bw, reduction_percent, control) ==
    IF action = "throttle"
    THEN current_bw - ((current_bw * reduction_percent) \div 100)
    ELSE current_bw + 10

(* _apply_bandwidth_changes, the value computed for one target *)
NewBandwidth(action, current_bw, reduction_percent, control) ==
    IF action = "throttle"
    THEN Max(control.min_bandwidth,
             current_bw - Reduction(current_bw, reduction_percent))
    ELSE Min(control.max_bandwidth, current_bw + 10)

(* Mutant: the patch is issued whether or not the value changes *)
NeedsPatchAlways(new_bw, current_bw) == TRUE

(* _apply_bandwidth_changes, the guard of the patch call *)
NeedsPatch(new_bw, current_bw) == new_bw # current_bw

(* _apply_bandwidth_changes, the loop over the targets; patch_ok[i] is the *)
(* return value of _patch_deployment_bandwidth for the i-th target, should *)
(* it be called.  a is [bandwidths, calls].                                *)
RECURSIVE ApplyToTargets(_, _, _, _, _, _)
ApplyToTargets(dec, targets, control, patch_ok, i, a) ==
    IF i > Len(targets) THEN a
    ELSE LET t == targets[i]
             current_bw == a.bandwidths[t.deployment]
             new_bw == NewBandwidth(dec.action, current_bw, dec.reduction_percent,
                                    control)
             patched == NeedsPatch(new_bw, current_bw)
             success == patched /\ patch_ok[i]
             call == [deployment |-> t.deployment, namespace |-> t.namespace,
                      current_bw |-> current_bw, new_bw |-> new_bw,
                      patched |-> patched, success |-> success]
         IN  ApplyToTargets(dec, targets, control, patch_ok, i + 1,
                 [bandwidths |-> IF success
                                 THEN [a.bandwidths EXCEPT ![t.deployment] = new_bw]
                                 ELSE a.bandwidths,
                  calls |-> Append(a.calls, call)])

(* _apply_bandwidth_changes *)
ApplyBandwidthChanges(dec, bws, targets, control, patch_ok) ==
    IF dec.action = "maintain" THEN [bandwidths |-> bws, calls |-> <<>>]
    ELSE ApplyToTargets(dec, targets, control, patch_ok, 1,
                        [bandwidths |-> bws, calls |-> <<>>])

NoDecision == [action |-> "none", reason |-> "", reduction_percent |-> 0]

(* control_loop, step 1 with empty app_states *)
Measure(cfg, wins, udp_g, tcp_g, fetch) ==
    MeasureApps(cfg.critical_apps, fetch, cfg.control.window_size, 1,
                [windows |-> wins, app_states |-> <<>>, raised |-> FALSE,
                 udp_gauge |-> udp_g, tcp_gauge |-> tcp_g])

(* control_loop, steps 2 and 3, skipped when nothing was measured *)
DecideAndApply(cfg, states, bws, patch_ok) ==
    IF states = <<>>
    THEN [decision |-> NoDecision, bandwidths |-> bws, calls |-> <<>>]
    ELSE LET dec == MakeControlDecision(states)
             a == ApplyBandwidthChanges(dec, bws, cfg.best_effort_targets,
                                        cfg.control, patch_ok)
         IN  [decision |-> dec, bandwidths |-> a.bandwidths, calls |-> a.calls]

(* One cycle calls _patch_deployment_bandwidth for some target: there is a *)
(* decision other than MAINTAIN and a target whose value changes           *)
PatchNeeded(cfg, states, bws) ==
    /\ states # <<>>
    /\ LET dec == MakeControlDecision(states)
           targets == cfg.best_effort_targets
       IN  /\ dec.action # "maintain"
           /\ \E i \in 1..Len(targets) :
                 NeedsPatch(NewBandwidth(dec.action, bws[targets[i].deployment],
                                         dec.reduction_percent, cfg.control),
                            bws[targets[i].deployment])

(* The return values _patch_deployment_bandwidth may give in one cycle, by  *)
(* target.  When the cycle does not call it the return values are           *)
(* immaterial and one tuple stands for all.                                 *)
PatchResults(cfg, needed) ==
    IF needed THEN [1..Len(cfg.best_effort_targets) -> BOOLEAN]
    ELSE {[i \in 1..Len(cfg.best_effort_targets) |-> TRUE]}

----------------------------------------------------------------------------
(* Configurations the model starts from *)

DefaultControl == ControlConfig(5, 10, 10, 1000)

OneTarget == <<BestEffortTarget("batch", "default", 1000)>>

(* Two targets: different deployments, or one deployment name in two      *)
(* namespaces.                                                             *)
TargetFiles ==
    {<<BestEffortTarget("batch", "default", 12),
       BestEffortTarget(dep, "staging", 1500)>> : dep \in {"batch", "etl"}}

(* One UDP app and the targets varied *)
TargetsFiles ==
    {[control |-> DefaultControl,
      critical_apps |-> <<CriticalAppConfig("robot-control", "UDP", 5, 10)>>,
      best_effort_targets |-> targets] : targets \in TargetFiles}

(* Two UDP apps of different thresholds: with Samples = {0, 6} a jitter of *)
(* 6 violates a threshold of 5 and is mid-range for a threshold of 8.      *)
TwoUdpFiles ==
    {[control |-> DefaultControl,
      critical_apps |-> <<CriticalAppConfig("robot-control", "UDP", 5, 10),
                          CriticalAppConfig("telemetry", "UDP", 8, 5)>>,
      best_effort_targets |-> OneTarget]}

(* Scenario 5 of the specification: a UDP app and a TCP app *)
UdpTcpFiles ==
    {[control |-> DefaultControl,
      critical_apps |-> <<CriticalAppConfig("robot-control", "UDP", 5, 10),
                          CriticalAppConfig("safety-scanner", "TCP", 2, 5)>>,
      best_effort_targets |-> OneTarget]}

(* Three critical apps in this file order; priorities vary, the third     *)
(* app's protocol too.                                                     *)
AppFileNames == <<"robot-control", "safety-scanner", "telemetry">>

DecisionFiles ==
    {[control |-> DefaultControl,
      critical_apps |-> <<CriticalAppConfig(AppFileNames[1], "UDP", 5, p1),
                          CriticalAppConfig(AppFileNames[2], "UDP", 5, p2),
                          CriticalAppConfig(AppFileNames[3], proto, 5, p3)>>,
      best_effort_targets |-> OneTarget] :
        p1 \in {5, 10}, p2 \in {5, 10}, p3 \in {5, 10}, proto \in {"UDP", "TCP"}}

(* One UDP app of threshold 5, one target starting at `start`, bounds      *)
(* [10, 1000], the configured increase step `up`.                          *)
AimdFile(start, up) ==
    [control |-> ControlConfig(5, up, 10, 1000),
     critical_apps |-> <<CriticalAppConfig("robot-control", "UDP", 5, 10)>>,
     best_effort_targets |-> <<BestEffortTarget("batch", "default", start)>>]

StartBandwidths == 10..1000
StepUps == {10, 5}

(* Long runs: bounds [10, 1000] with the starts of the worked examples and *)
(* both ends, the narrow bounds [4, 60] and [1, 4] with starts at and      *)
(* between their ends; the configured increase step is 10 or 20.           *)
RunBounds ==
    {<<10, 1000, start>> : start \in {10, 50, 500, 980, 1000}}
        \cup {<<4, 60, start>> : start \in {4, 5, 60}}
        \cup {<<1, 4, start>> : start \in {1, 2, 4}}

RunStepUps == {10, 20}

RunFile(lo, hi, start, up) ==
    [control |-> ControlConfig(5, up, lo, hi),
     critical_apps |-> <<CriticalAppConfig("robot-control", "UDP", 5, 10)>>,
     best_effort_targets |-> <<BestEffortTarget("batch", "default", start)>>]

(* Jitter held over a run: stable, mid-range and violating for threshold 5 *)
Signals == {0, 3, 6}

(* Window bookkeeping: one app; two apps of different names; two entries   *)
(* of one name, which validate accepts.                                    *)
WindowFiles ==
    {[control |-> DefaultControl,
      critical_apps |-> apps,
      best_effort_targets |-> OneTarget] :
        apps \in {<<CriticalAppConfig("robot-control", "UDP", 5, 10)>>,
                  <<CriticalAppConfig("robot-control", "UDP", 5, 10),
                    CriticalAppConfig("safety-scanner", "TCP", 2, 5)>>,
                  <<CriticalAppConfig("robot-control", "UDP", 5, 10),
                    CriticalAppConfig("robot-control", "TCP", 2, 5)>>}}

(* Latencies in ten-thousandths of a millisecond: 0, 0.0004, 5 and 5.0004  *)
(* ms, and two larger ones to add on top                                   *)
FineSamples == {0, 4, 50000, 50004}
LargerSamples == {50010, 9000000}

RECURSIVE SeqsUpTo(_, _)
SeqsUpTo(vals, n) ==
    IF n = 0 THEN {<<>>}
    ELSE LET shorter == SeqsUpTo(vals, n - 1)
         IN  shorter \cup {Append(w, v) : w \in {u \in shorter : Len(u) = n - 1},
                                          v \in vals}

(* Four samples per app, fed in the first four cycles: the fifth sample    *)
(* then gives a jitter of 0 after the first and of 6 after the second.     *)
WarmFeeds == {<<0, 0, 0, 0>>, <<0, 0, 6, 6>>}

----------------------------------------------------------------------------
(* State machine *)

NoScenario == [start |-> 0, signal |-> 0, n |-> 0, all_ok |-> TRUE]
NoShadow == [windows |-> <<>>, bandwidths |-> <<>>, calls |-> <<>>]
NoIngest == [fetched |-> <<>>, history |-> <<>>]

(* The processes next to the controller, before they have done anything:   *)
(* a probe none of whose labelled gauges exists yet, a reflector that has  *)
(* bound its socket, an API server holding no deployment                   *)
NoProbe == [udp_latency |-> None, udp_success |-> None,
            tcp_latency |-> None, tcp_success |-> None,
            throughput |-> None, throughput_counter |-> 0, cycles |-> 0,
            udp_result |-> [latency_ms |-> None, success |-> FALSE],
            tcp_result |-> [latency_ms |-> None, success |-> FALSE]]
NoReflector == [running |-> TRUE, socket |-> <<>>, sent |-> <<>>,
                arrived |-> <<>>, received |-> 0]
NoOrchestrator == [reachable |-> TRUE, deployments |-> <<>>,
                   rejected |-> {}, failed_run |-> 0, reconnected |-> FALSE]
peers == <<probe, reflector, orchestrator>>
NoPeers == probe = NoProbe /\ reflector = NoReflector
               /\ orchestrator = NoOrchestrator

(* main(): load, validate, construct the controller.  With `paired`, a     *)
(* second controller is constructed from the same configuration and reads. *)
Startup(files, readsets, paired) ==
    \E file \in files :
      LET cfg == ParseConfig(file)
      IN  /\ Validate(cfg)
          /\ \E reads \in [1..Len(cfg.best_effort_targets) -> readsets] :
               LET bws == InitBandwidths(cfg.best_effort_targets, reads, 1, <<>>)
               IN  /\ config = cfg
                   /\ current_bandwidths = bws
                   /\ windows = <<>>
                   /\ cycle = 0
                   /\ udp_jitter_gauge = <<>>
                   /\ tcp_jitter_gauge = <<>>
                   /\ app_states = <<>>
                   /\ decision = NoDecision
                   /\ patch_calls = <<>>
                   /\ shadow = IF paired THEN [NoShadow EXCEPT !.bandwidths = bws]
                                         ELSE NoShadow
                   /\ scenario = NoScenario
                   /\ ingested = NoIngest
                   /\ running = TRUE
                   /\ NoPeers

(* k iterations of control_loop from controller state st, the i-th app    *)
(* fetching feeds[i][c] in cycle c and every patch succeeding.             *)
RECURSIVE RunCycles(_, _, _, _, _)
RunCycles(cfg, st, feeds, c, k) ==
    IF c > k THEN st
    ELSE LET fetch == [i \in 1..Len(cfg.critical_apps) |->
                          [kind |-> "number", value |-> feeds[i][c]]]
             m == Measure(cfg, st.windows, st.udp_gauge, st.tcp_gauge, fetch)
             r == DecideAndApply(cfg, m.app_states, st.bandwidths,
                                 [i \in 1..Len(cfg.best_effort_targets) |-> TRUE])
         IN  RunCycles(cfg,
                 [windows |-> m.windows, udp_gauge |-> m.udp_gauge,
                  tcp_gauge |-> m.tcp_gauge, app_states |-> m.app_states,
                  bandwidths |-> r.bandwidths, decision |-> r.decision,
                  calls |-> r.calls],
                 feeds, c + 1, k)

(* The controller after its first four cycles, fed from WarmFeeds *)
WarmStartup(files) ==
    \E file \in files :
      LET cfg == ParseConfig(file)
      IN  /\ Validate(cfg)
          /\ \E feeds \in [1..Len(cfg.critical_apps) -> WarmFeeds] :
               LET bws == InitBandwidths(cfg.best_effort_targets,
                              [i \in 1..Len(cfg.best_effort_targets) |-> None],
                              1, <<>>)
                   st == RunCycles(cfg,
                             [windows |-> <<>>, udp_gauge |-> <<>>,
                              tcp_gauge |-> <<>>, app_states |-> <<>>,
                              bandwidths |-> bws, decision |-> NoDecision,
                              calls |-> <<>>],
                             feeds, 1, 4)
               IN  /\ config = cfg
                   /\ current_bandwidths = st.bandwidths
                   /\ windows = st.windows
                   /\ cycle = 4
                   /\ udp_jitter_gauge = st.udp_gauge
                   /\ tcp_jitter_gauge = st.tcp_gauge
                   /\ app_states = st.app_states
                   /\ decision = st.decision
                   /\ patch_calls = st.calls
                   /\ shadow = NoShadow
                   /\ scenario = NoScenario
                   /\ ingested = NoIngest
                   /\ running = TRUE
                   /\ NoPeers

(* The state after one iteration of control_loop: m is the measurement     *)
(* step's result, r the decision and enforcement steps' result.  An        *)
(* exception raised while measuring leaves the loop before steps 2 and 3:  *)
(* it propagates to main(), which logs it and exits.                       *)
CycleEffect(m, r) ==
    /\ windows' = m.windows
    /\ udp_jitter_gauge' = m.udp_gauge
    /\ tcp_jitter_gauge' = m.tcp_gauge
    /\ app_states' = m.app_states
    /\ current_bandwidths' = IF m.raised THEN current_bandwidths ELSE r.bandwidths
    /\ decision' = IF m.raised THEN NoDecision ELSE r.decision
    /\ patch_calls' = IF m.raised THEN <<>> ELSE r.calls
    /\ running' = ~m.raised
    /\ cycle' = cycle + 1
    /\ UNCHANGED <<config, scenario, probe, reflector>>

(* The samples appended by the fetches of one cycle, app by app in the     *)
(* order of config.critical_apps, added to the history hist                *)
RECURSIVE Ingest(_, _, _, _)
Ingest(apps, fetch, i, hist) ==
    IF i > Len(apps) THEN hist
    ELSE IF fetch[i].kind # "number" THEN Ingest(apps, fetch, i + 1, hist)
    ELSE LET name == apps[i].name
             old == IF name \in DOMAIN hist THEN hist[name] ELSE <<>>
         IN  Ingest(apps, fetch, i + 1,
                    [n \in DOMAIN hist \cup {name} |->
                        IF n = name THEN Append(old, fetch[i].value) ELSE hist[n]])

(* One iteration of control_loop, the fetches of the apps returning one of *)
(* the tuples of outcomes `fetches`; with `record` the history of the      *)
(* fetches is kept.                                                        *)
TickWith(maxc, fetches, record) ==
    /\ running
    /\ cycle < maxc
    /\ \E fetch \in fetches :
         LET m == Measure(config, windows, udp_jitter_gauge, tcp_jitter_gauge, fetch)
         IN  /\ ingested' = IF record
                            THEN [fetched |-> fetch,
                                  history |-> Ingest(config.critical_apps, fetch,
                                                     1, ingested.history)]
                            ELSE ingested
             /\ \E patch_ok \in PatchResults(config,
                       PatchNeeded(config, m.app_states, current_bandwidths)) :
                   /\ CycleEffect(m, DecideAndApply(config, m.app_states,
                                                    current_bandwidths, patch_ok))
                   /\ UNCHANGED <<shadow, orchestrator>>

(* One iteration of control_loop, every fetch returning an outcome of the  *)
(* set `outcomes`                                                          *)
TickOn(maxc, outcomes, record) ==
    TickWith(maxc, [1..Len(config.critical_apps) -> outcomes], record)

(* One iteration of control_loop *)
Tick(maxc) == TickOn(maxc, FetchOutcomes, FALSE)

(* The fetch outcomes of a run that agrees with `fetch` on every UDP app   *)
(* and whose TCP fetches all fail.                                         *)
WithoutTcp(apps, fetch) ==
    [i \in DOMAIN fetch |->
        IF apps[i].protocol = "TCP" THEN [kind |-> "error", value |-> 0]
        ELSE fetch[i]]

(* One iteration of control_loop in two controllers side by side: both get *)
(* the same UDP fetch outcomes and the same patch results; the first gets  *)
(* arbitrary TCP fetch outcomes, the second none.                          *)
TickPair(maxc) ==
    /\ running
    /\ cycle < maxc
    /\ \E fetch \in [1..Len(config.critical_apps) -> FetchOutcomes] :
         LET m == Measure(config, windows, udp_jitter_gauge, tcp_jitter_gauge, fetch)
             m2 == Measure(config, shadow.windows, <<>>, <<>>,
                           WithoutTcp(config.critical_apps, fetch))
         IN  \E patch_ok \in PatchResults(config,
                   \/ PatchNeeded(config, m.app_states, current_bandwidths)
                   \/ PatchNeeded(config, m2.app_states, shadow.bandwidths)) :
               LET r2 == DecideAndApply(config, m2.app_states, shadow.bandwidths,
                                        patch_ok)
               IN  /\ CycleEffect(m, DecideAndApply(config, m.app_states,
                                                    current_bandwidths, patch_ok))
                   /\ shadow' = [windows |-> m2.windows,
                                 bandwidths |-> r2.bandwidths,
                                 calls |-> r2.calls]
                   /\ UNCHANGED <<ingested, orchestrator>>

Init == Startup(TargetsFiles, ReadOutcomes, FALSE)
Next == Tick(MaxCycles)
Spec == Init /\ [][Next]_vars

InitTwoUdp == Startup(TwoUdpFiles, {None}, FALSE)
NextTwoUdp == Tick(MaxCycles)
SpecTwoUdp == InitTwoUdp /\ [][NextTwoUdp]_vars

(* Startup from `file` for a run under the sustained jitter `signal` *)
StartRun(file, signal) ==
    LET cfg == ParseConfig(file)
    IN  /\ Validate(cfg)
        /\ config = cfg
        /\ current_bandwidths =
               InitBandwidths(cfg.best_effort_targets, <<None>>, 1, <<>>)
        /\ windows = <<>>
        /\ cycle = 0
        /\ udp_jitter_gauge = <<>>
        /\ tcp_jitter_gauge = <<>>
        /\ app_states = <<>>
        /\ decision = NoDecision
        /\ patch_calls = <<>>
        /\ shadow = NoShadow
        /\ scenario = [start |-> cfg.best_effort_targets[1].initial_bandwidth,
                       signal |-> signal, n |-> 0, all_ok |-> TRUE]
        /\ ingested = NoIngest
        /\ running = TRUE
        /\ NoPeers

(* Startup for a run under a sustained jitter signal *)
InitAimd ==
    \E start \in StartBandwidths, up \in StepUps, signal \in Signals :
        StartRun(AimdFile(start, up), signal)

(* control_loop from the SLA evaluation on (steps 2 and 3), for app_states *)
(* that hold the scenario's jitter for every app; at most maxn iterations  *)
SustainedTick(maxn) ==
    /\ running
    /\ scenario.n < maxn
    /\ LET states == [i \in 1..Len(config.critical_apps) |->
                         AppState(config.critical_apps[i],
                                  [latency |-> scenario.signal,
                                   jitter |-> scenario.signal])]
       IN  \E patch_ok \in [1..Len(config.best_effort_targets) -> BOOLEAN] :
             LET r == DecideAndApply(config, states, current_bandwidths, patch_ok)
             IN  /\ app_states' = states
                 /\ decision' = r.decision
                 /\ current_bandwidths' = r.bandwidths
                 /\ patch_calls' = r.calls
                 /\ cycle' = cycle + 1
                 /\ scenario' = [scenario EXCEPT
                        !.n = @ + 1,
                        !.all_ok = @ /\ \A i \in 1..Len(r.calls) :
                                           r.calls[i].patched => r.calls[i].success]
                 /\ UNCHANGED <<config, windows, udp_jitter_gauge,
                                tcp_jitter_gauge, shadow, ingested, running,
                                peers>>

AimdStep == SustainedTick(MaxRun)

NextAimd == AimdStep
SpecAimd == InitAimd /\ [][NextAimd]_vars

(* Long runs under a sustained signal.  control_loop is `while True` with  *)
(* a sleep between iterations, so an iteration that can run does run.      *)
InitRun ==
    \E b \in RunBounds, up \in RunStepUps, signal \in Signals :
        StartRun(RunFile(b[1], b[2], b[3], up), signal)

RunStep == SustainedTick(MaxTicks)
NextRun == RunStep
SpecRun == InitRun /\ [][NextRun]_vars /\ WF_vars(NextRun)

(* A metrics client holding one window of fine-grained latencies, under    *)
(* the name of the one configured app                                      *)
InitJitter ==
    \E w \in SeqsUpTo(FineSamples, JitterLen) :
      LET cfg == ParseConfig(AimdFile(1000, 10))
      IN  /\ config = cfg
          /\ current_bandwidths =
                 InitBandwidths(cfg.best_effort_targets, <<None>>, 1, <<>>)
          /\ windows = [n \in {cfg.critical_apps[1].name} |-> w]
          /\ cycle = 0
          /\ udp_jitter_gauge = <<>>
          /\ tcp_jitter_gauge = <<>>
          /\ app_states = <<>>
          /\ decision = NoDecision
          /\ patch_calls = <<>>
          /\ shadow = NoShadow
          /\ scenario = [op |-> "none", before |-> <<>>, jitter |-> 0]
          /\ ingested = NoIngest
          /\ running = TRUE
          /\ NoPeers

TheWindow == windows[config.critical_apps[1].name]

(* _calculate_jitter_iqr applied to the window *)
ComputeJitter ==
    /\ scenario.op # "iqr"
    /\ scenario' = [op |-> "iqr", before |-> TheWindow,
                    jitter |-> JitterIqr(TheWindow, 10000)]
    /\ UNCHANGED <<config, windows, current_bandwidths, cycle, udp_jitter_gauge,
                   tcp_jitter_gauge, app_states, decision, patch_calls, shadow,
                   ingested, running, peers>>

(* A sample larger than every sample held is appended to a window that has *)
(* room for it                                                             *)
AddLarger ==
    /\ scenario.op # "iqr"
    /\ \E x \in LargerSamples :
         /\ \A i \in 1..Len(TheWindow) : TheWindow[i] < x
         /\ windows' = [windows EXCEPT ![config.critical_apps[1].name] =
                            DequeAppend(TheWindow, x, Len(TheWindow) + 1)]
         /\ scenario' = [op |-> "add", before |-> TheWindow, jitter |-> 0]
    /\ UNCHANGED <<config, current_bandwidths, cycle, udp_jitter_gauge,
                   tcp_jitter_gauge, app_states, decision, patch_calls, shadow,
                   ingested, running, peers>>

NextJitter == ComputeJitter \/ AddLarger
SpecJitter == InitJitter /\ [][NextJitter]_vars

InitWindows == Startup(WindowFiles, {None}, FALSE)
(* The fetches of a TCP entry fail or return 6; those of a UDP entry        *)
(* return any outcome                                                      *)
WindowOutcomes(app, outcomes) ==
    IF app.protocol = "TCP"
    THEN {f \in outcomes : f.kind = "number" => f.value = 6}
    ELSE outcomes

(* One recorded iteration of control_loop under these outcomes *)
TickWindows(maxc, outcomes) ==
    TickWith(maxc,
             {fetch \in [1..Len(config.critical_apps) -> outcomes] :
                 \A i \in DOMAIN fetch :
                     fetch[i] \in WindowOutcomes(config.critical_apps[i], outcomes)},
             TRUE)

TickRecorded == TickWindows(MaxCycles, FetchOutcomes)
NextWindows == TickRecorded
SpecWindows == InitWindows /\ [][NextWindows]_vars

InitScrape == Startup(WindowFiles, {None}, FALSE)
TickScrape == TickWindows(ScrapeTicks, ScrapeOutcomes)
NextScrape == TickScrape
SpecScrape == InitScrape /\ [][NextScrape]_vars

InitDecision == WarmStartup(DecisionFiles)
NextDecision == Tick(4 + DecisionTicks)
SpecDecision == InitDecision /\ [][NextDecision]_vars

InitPair == Startup(UdpTcpFiles, {None, Some(995)}, TRUE)
NextPair == TickPair(PairTicks)
SpecPair == InitPair /\ [][NextPair]_vars

----------------------------------------------------------------------------
(* Properties of the controller with one UDP app and two targets (Spec) *)

Apps == Range(config.critical_apps)
UdpApps == {a \in Apps : a.protocol = "UDP"}
Targets == Range(config.best_effort_targets)
Control == config.control

WindowOf(wins, name) == IF name \in DOMAIN wins THEN wins[name] ELSE <<>>

Calls == Range(patch_calls)

(* C1: after startup and after every control tick the in-memory bandwidth  *)
(* of every best-effort target lies in [min_bandwidth, max_bandwidth],     *)
(* whatever the annotation read or the configured initial_bandwidth was.   *)
C1_BandwidthWithinBounds ==
    \A t \in Targets :
        /\ Control.min_bandwidth <= current_bandwidths[t.deployment]
        /\ current_bandwidths[t.deployment] <= Control.max_bandwidth

(* C2: on a tick at which every UDP app has fewer than 5 samples in its    *)
(* window, the decision is MAINTAIN: no bandwidth changes, no patch.       *)
C2_FewSamplesMaintain ==
    (cycle >= 1 /\ \A a \in UdpApps : Len(WindowOf(windows, a.name)) < 5)
        => /\ decision.action \in {"maintain", "none"}
           /\ \A c \in Calls : ~c.patched

(* C8: the in-memory bandwidth of a target is replaced only by the value   *)
(* of a patch that succeeded for that same target on that tick; a target   *)
(* whose patch failed (or was not attempted) keeps its value, whatever     *)
(* happened to the other targets' patches.                                 *)
C8_UpdateOnlyOnOwnSuccess ==
    [][\A t \in Targets :
          current_bandwidths'[t.deployment] # current_bandwidths[t.deployment]
            => \E i \in 1..Len(patch_calls') :
                  /\ patch_calls'[i].deployment = t.deployment
                  /\ patch_calls'[i].namespace = t.namespace
                  /\ patch_calls'[i].success
                  /\ patch_calls'[i].new_bw = current_bandwidths'[t.deployment]]_vars

----------------------------------------------------------------------------
(* Properties of the decision with two UDP apps (SpecTwoUdp) *)

StateOf(name) == {app_states[i] : i \in {j \in 1..Len(app_states) :
                                            app_states[j].name = name}}
Measured(a) == StateOf(a.name) # {}

(* The jitter of an app: of its rolling window (0 below 5 samples) *)
WindowJitter(a) == CalculateJitterIqr(WindowOf(windows, a.name))

(* The decision C3 states, the jitter of an app being that of its window *)
C3_DecisionByWindows ==
    IF \E a \in UdpApps : WindowJitter(a) > a.max_jitter_ms THEN "throttle"
    ELSE IF UdpApps # {} /\ \A a \in UdpApps : 2 * WindowJitter(a) < a.max_jitter_ms
    THEN "release"
    ELSE "maintain"

(* The decision C3 states, an app that was not measured on the tick having *)
(* no jitter (it neither violates nor is stable)                           *)
C3_DecisionByMeasurements ==
    IF \E a \in UdpApps : \E st \in StateOf(a.name) : st.jitter > a.max_jitter_ms
    THEN "throttle"
    ELSE IF /\ UdpApps # {}
            /\ \A a \in UdpApps :
                  /\ Measured(a)
                  /\ \A st \in StateOf(a.name) : 2 * st.jitter < a.max_jitter_ms
    THEN "release"
    ELSE "maintain"

(* C3: the decision of a tick is THROTTLE iff some configured UDP app has  *)
(* jitter > max_jitter, else RELEASE iff there is a UDP app and every      *)
(* configured UDP app has jitter < max_jitter / 2, else MAINTAIN (under    *)
(* either reading of the jitter of an app not measured on the tick).       *)
C3_DecisionOfConfiguredUdpApps ==
    decision.action # "none"
        => decision.action \in {C3_DecisionByWindows, C3_DecisionByMeasurements}

----------------------------------------------------------------------------
(* Properties of two controllers side by side (SpecPair) *)

TcpApps == {a \in Apps : a.protocol = "TCP"}

(* Patches that reached the orchestrator: target and value *)
Enforced(calls) ==
    [i \in {j \in 1..Len(calls) : calls[j].success} |->
        <<calls[i].deployment, calls[i].namespace, calls[i].new_bw>>]

----------------------------------------------------------------------------
(* Properties of the decision with three apps (SpecDecision) *)

FileIndex(name) == CHOOSE i \in 1..Len(AppFileNames) : AppFileNames[i] = name

(* The configuration file behind config: its apps in file order *)
FileApps ==
    LET present == {i \in 1..Len(AppFileNames) :
                       \E a \in Apps : a.name = AppFileNames[i]}
        f[k \in 0..Len(AppFileNames)] ==
            IF k = 0 THEN <<>>
            ELSE IF k \in present
                 THEN Append(f[k - 1], CHOOSE a \in Apps : a.name = AppFileNames[k])
                 ELSE f[k - 1]
    IN  f[Len(AppFileNames)]

(* The UDP apps that violate their SLA on the last tick *)
Violators == {st \in Range(app_states) : st.violation /\ st.app.protocol = "UDP"}

(* v is the violator of greatest priority, the first in the file among equals *)
IsWinner(v) ==
    \A w \in Violators :
        \/ v.app.priority > w.app.priority
        \/ /\ v.app.priority = w.app.priority
           /\ FileIndex(v.name) <= FileIndex(w.name)

(* The decision for the last tick's measurements had the file given the    *)
(* priorities of apps a and b exchanged                                    *)
DecisionWithSwapped(a, b) ==
    LET file == [i \in 1..Len(FileApps) |->
                    IF FileApps[i].name = a.name
                    THEN [FileApps[i] EXCEPT !.priority = b.priority]
                    ELSE IF FileApps[i].name = b.name
                    THEN [FileApps[i] EXCEPT !.priority = a.priority]
                    ELSE FileApps[i]]
        apps == SortByPriority(file)
        measured == {i \in 1..Len(apps) : StateOf(apps[i].name) # {}}
        st[k \in 0..Len(apps)] ==
            IF k = 0 THEN <<>>
            ELSE IF k \in measured
                 THEN LET old == CHOOSE o \in StateOf(apps[k].name) : TRUE
                      IN  DictPut(st[k - 1],
                                  AppState(apps[k], [latency |-> old.latency,
                                                     jitter |-> old.jitter]))
                 ELSE st[k - 1]
    IN  MakeControlDecision(st[Len(apps)])

(* C5: when UDP apps violate on a tick the decision is THROTTLE and its    *)
(* reason names the violator of greatest priority, among violators of      *)
(* equal priority the first in the configuration file; with exactly two    *)
(* violators of different priorities, exchanging their priorities in the   *)
(* file makes the reason name the other one.                               *)
C5_ReasonNamesHighestPriority ==
    Violators # {} =>
        /\ decision.action = "throttle"
        /\ \A v \in Violators : (decision.reason = v.name) <=> IsWinner(v)
        /\ \A v, w \in Violators :
              (Cardinality(Violators) = 2 /\ v.app.priority > w.app.priority)
                 => /\ decision.reason = v.name
                    /\ DecisionWithSwapped(v.app, w.app).action = "throttle"
                    /\ DecisionWithSwapped(v.app, w.app).reason = w.name

(* Three violators, the two of greatest priority equal and later in the    *)
(* file than the third                                                     *)
C5_Witness ==
    /\ Cardinality(Violators) = 3
    /\ decision.action = "throttle"
    /\ FileIndex(decision.reason) = 2
    /\ \E v, w \in Violators :
          /\ v.name # w.name
          /\ v.app.priority = w.app.priority
          /\ \A u \in Violators : u.app.priority <= v.app.priority

(* Exactly two violators, of different priorities *)
C5_SwapCaseReached ==
    /\ Cardinality(Violators) = 2
    /\ \E v, w \in Violators : v.app.priority > w.app.priority

----------------------------------------------------------------------------
(* Properties of the enforcement under a sustained signal (SpecAimd) *)

InRange(bw) == Control.min_bandwidth <= bw /\ bw <= Control.max_bandwidth

(* r = floor(bw * 0.20) *)
IsFloorOfFifth(r, bw) == 100 * r <= 20 * bw /\ 20 * bw < 100 * (r + 1)

(* C6: on a THROTTLE tick the value computed for a target of current       *)
(* bandwidth B in [min_bandwidth, max_bandwidth] is                        *)
(* max(min_bandwidth, B - floor(B * 0.20)).                                *)
C6_ThrottleValue ==
    decision.action = "throttle" =>
        \A c \in Calls :
            InRange(c.current_bw) =>
                \E r \in 0..c.current_bw :
                    /\ IsFloorOfFifth(r, c.current_bw)
                    /\ c.new_bw = IF c.current_bw - r >= Control.min_bandwidth
                                  THEN c.current_bw - r
                                  ELSE Control.min_bandwidth

(* THROTTLE of a bandwidth that is no multiple of 5, patched *)
C6_Witness ==
    /\ decision.action = "throttle"
    /\ \E c \in Calls : c.current_bw = 258 /\ c.new_bw = 207 /\ c.success

(* C7: on a RELEASE tick the value computed for a target of current        *)
(* bandwidth B is min(max_bandwidth, B + step), step being control.step_up *)
(* of the loaded configuration.                                            *)
C7_ReleaseUsesConfiguredStep ==
    decision.action = "release" =>
        \A c \in Calls :
            c.new_bw = IF c.current_bw + Control.step_up <= Control.max_bandwidth
                       THEN c.current_bw + Control.step_up
                       ELSE Control.max_bandwidth

(* The bandwidth after n throttles in a row from `start`, all patched *)
SustainedViolation(start) ==
    /\ scenario.start = start
    /\ scenario.signal > 5
    /\ scenario.all_ok

TheBandwidth == current_bandwidths[config.best_effort_targets[1].deployment]

(* C10 as stated: from 500 the enforced bandwidth over five ticks of       *)
(* sustained violation is 500 -> 400 -> 320 -> 256 -> 204 -> 163.          *)
C10_SequenceAsStated ==
    (SustainedViolation(500) /\ scenario.n <= 5)
        => TheBandwidth = <<500, 400, 320, 256, 204, 163>>[scenario.n + 1]

(* C10 amended: with bounds [10, 1000], d = 0.20, a sustained UDP          *)
(* violation and every patch succeeding, from 500 the enforced bandwidth   *)
(* over five ticks is 500 -> 400 -> 320 -> 256 -> 205 -> 164.              *)
C10_SequenceFrom500 ==
    (SustainedViolation(500) /\ scenario.n <= 5)
        => /\ TheBandwidth = <<500, 400, 320, 256, 205, 164>>[scenario.n + 1]
           /\ scenario.n >= 1 => /\ decision.action = "throttle"
                                 /\ \A c \in Calls : c.success

(* The fifth tick of the run from 500 *)
C10_Witness ==
    /\ SustainedViolation(500)
    /\ scenario.n = 5
    /\ Control.min_bandwidth = 10 /\ Control.max_bandwidth = 1000
    /\ TheBandwidth = 164

----------------------------------------------------------------------------
(* Properties of long runs under a sustained signal (SpecRun) *)

(* A run with bounds [lo, hi] from `start` under sustained UDP violation,  *)
(* every patch issued so far having succeeded                              *)
ViolationRun(lo, hi, start) ==
    /\ Control.min_bandwidth = lo /\ Control.max_bandwidth = hi
    /\ SustainedViolation(start)

(* C11 as stated: from 50 the enforced bandwidth over consecutive ticks of *)
(* sustained violation is 50 -> 40 -> 32 -> 25 -> 20 -> 16 -> 12 -> 10 ->  *)
(* 10, staying at 10 thereafter.                                           *)
C11_SequenceAsStated ==
    ViolationRun(10, 1000, 50)
        => TheBandwidth = IF scenario.n <= 8
                          THEN <<50, 40, 32, 25, 20, 16, 12, 10, 10>>[scenario.n + 1]
                          ELSE 10

(* C11 amended: with bounds [10, 1000], d = 0.20, a sustained UDP          *)
(* violation and every patch succeeding, from 50 the enforced bandwidth    *)
(* over consecutive ticks is 50 -> 40 -> 32 -> 26 -> 21 -> 17 -> 14 -> 12  *)
(* -> 10 -> 10, staying at 10 thereafter.                                  *)
C11_SequenceFrom50 ==
    ViolationRun(10, 1000, 50)
        => /\ TheBandwidth =
                 IF scenario.n <= 9
                 THEN <<50, 40, 32, 26, 21, 17, 14, 12, 10, 10>>[scenario.n + 1]
                 ELSE 10
           /\ scenario.n >= 1 => decision.action = "throttle"

(* The run from 50 held at the floor: a throttle tick that issues no patch *)
C11_Witness ==
    /\ ViolationRun(10, 1000, 50)
    /\ scenario.n = 10
    /\ TheBandwidth = 10
    /\ decision.action = "throttle"
    /\ \A c \in Calls : c.current_bw = 10 /\ ~c.patched

(* Under sustained violation the bandwidth never rises from one tick to    *)
(* the next                                                                *)
ThrottleRunNonIncreasing ==
    [][scenario.signal > 5 => TheBandwidth' <= TheBandwidth]_vars

StableRun ==
    /\ scenario.signal * 2 < 5
    /\ scenario.all_ok

(* C13: under all-stable conditions on every tick and every patch          *)
(* succeeding, from any B0 < max_bandwidth the enforced bandwidth never    *)
(* decreases and equals max_bandwidth once ceil((max_bandwidth - B0) /     *)
(* step) ticks have passed, step being the configured increase step; from  *)
(* 500 with step 10 and max 1000 the first tick gives 510 and the value is *)
(* 1000 after 50 ticks.                                                    *)
C13_ReleaseConverges ==
    /\ [][scenario.signal * 2 < 5 => TheBandwidth' >= TheBandwidth]_vars
    /\ [](StableRun /\ scenario.start < Control.max_bandwidth
            => /\ scenario.n * Control.step_up
                      >= Control.max_bandwidth - scenario.start
                  => TheBandwidth = Control.max_bandwidth
               /\ (/\ scenario.start = 500
                   /\ Control.step_up = 10
                   /\ Control.max_bandwidth = 1000)
                  => /\ scenario.n = 1 => TheBandwidth = 510
                     /\ scenario.n = 50 => TheBandwidth = 1000)

(* The same with the step the code adds, 10 whatever is configured *)
C13_ReleaseConvergesByTen ==
    /\ [][scenario.signal * 2 < 5 => TheBandwidth' >= TheBandwidth]_vars
    /\ [](StableRun /\ scenario.start < Control.max_bandwidth
            => /\ scenario.n * 10 >= Control.max_bandwidth - scenario.start
                  => TheBandwidth = Control.max_bandwidth
               /\ scenario.start = 500 /\ Control.max_bandwidth = 1000
                  => /\ scenario.n = 1 => TheBandwidth = 510
                     /\ scenario.n = 50 => TheBandwidth = 1000
                     /\ scenario.n = 49 => TheBandwidth = 990)

(* The call leaves the target alone: same value, no patch issued *)
IsNoOp(c) ==
    /\ c.new_bw = c.current_bw
    /\ ~c.patched
    /\ current_bandwidths[c.deployment] = c.current_bw

(* THROTTLE at the floor and RELEASE at the ceiling are no-ops on every    *)
(* tick of a run; RELEASE at the floor computes a larger value.            *)
IdempotentAtBounds ==
    \A c \in Calls :
        /\ (decision.action = "throttle" /\ c.current_bw = Control.min_bandwidth)
              => IsNoOp(c)
        /\ (decision.action = "release" /\ c.current_bw = Control.max_bandwidth)
              => IsNoOp(c)
        /\ (decision.action = "release" /\ c.current_bw = Control.min_bandwidth)
              => /\ c.new_bw > c.current_bw
                 /\ c.patched
                 /\ c.success => current_bandwidths[c.deployment] = c.new_bw

(* THROTTLE of call c computes a smaller value and patches it *)
ThrottleMoves(c) ==
    /\ c.new_bw < c.current_bw
    /\ c.patched
    /\ c.success => current_bandwidths[c.deployment] = c.new_bw

(* C14 as stated: THROTTLE at min_bandwidth and RELEASE at max_bandwidth   *)
(* leave the bandwidth unchanged however often repeated, while RELEASE at  *)
(* min_bandwidth and THROTTLE at max_bandwidth still move the value.       *)
C14_IdempotentAtBounds ==
    /\ IdempotentAtBounds
    /\ \A c \in Calls :
          (decision.action = "throttle" /\ c.current_bw = Control.max_bandwidth)
              => ThrottleMoves(c)

(* C14 amended: the same, THROTTLE at max_bandwidth moving the value when  *)
(* max_bandwidth >= 5 (below 5, floor(B * 0.20) = 0).                      *)
C14_IdempotentAtBoundsFromFive ==
    /\ IdempotentAtBounds
    /\ \A c \in Calls :
          (/\ decision.action = "throttle"
           /\ c.current_bw = Control.max_bandwidth
           /\ Control.max_bandwidth >= 5)
              => ThrottleMoves(c)

(* The third throttle in a row of a target that started at the floor *)
C14_Witness ==
    /\ ViolationRun(10, 1000, 10)
    /\ scenario.n = 3
    /\ decision.action = "throttle"
    /\ \E c \in Calls : c.current_bw = Control.min_bandwidth /\ IsNoOp(c)

----------------------------------------------------------------------------
(* Properties of the rolling windows (SpecWindows, SpecScrape) *)

AppNames == {a.name : a \in Apps}

(* The values the fetches of the cycle just run returned for `name` *)
FetchedFor(fetched, name) ==
    {fetched[i].value : i \in {j \in 1..Len(config.critical_apps) :
                                  /\ config.critical_apps[j].name = name
                                  /\ fetched[j].kind = "number"}}

(* new is old with the one sample x appended, the oldest sample evicted if *)
(* old already held window_size samples                                    *)
GrewByOne(old, new, x) ==
    new = IF Len(old) < Control.window_size THEN Append(old, x)
          ELSE Append(Tail(old), x)

(* In the step, the window of every application with a successful fetch    *)
(* takes exactly one sample, one that was fetched for that application,    *)
(* and every other window stays as it is.                                  *)
OneSamplePerApp ==
    \A name \in AppNames :
        LET old == WindowOf(windows, name)
            new == WindowOf(windows', name)
            got == FetchedFor(ingested'.fetched, name)
        IN  IF got = {} THEN new = old
            ELSE \E x \in got : GrewByOne(old, new, x)

(* C15: on every tick the window of every configured application whose     *)
(* fetch and parse succeed grows by exactly one sample (or stays at         *)
(* window_size with the oldest evicted); no window receives two samples in *)
(* one tick and no sample goes into another application's window.          *)
C15_OneSamplePerTick == [][OneSamplePerApp]_vars

(* No two entries of critical_apps carry the same name *)
DistinctNames ==
    \A i, j \in 1..Len(config.critical_apps) :
        config.critical_apps[i].name = config.critical_apps[j].name => i = j

(* The same for configurations whose entries have distinct names *)
OneSamplePerTickOfDistinctNames == [][DistinctNames => OneSamplePerApp]_vars

(* The entries of critical_apps called `name` whose fetch of the cycle     *)
(* just run ended as `kind`                                                *)
EntriesEnding(fetched, name, kind) ==
    {i \in 1..Len(config.critical_apps) :
        config.critical_apps[i].name = name /\ fetched[i].kind = kind}

(* C16: when the fetch fails, the application's metric line is missing or  *)
(* its value is malformed, no sample is appended for the application on    *)
(* that tick: its window is the same sequence before and after the tick.   *)
(* An application is identified by its name, as the windows are; it failed *)
(* on the tick when no fetch made under its name returned a number.        *)
C16_FailedFetchKeepsWindow ==
    [][\A name \in AppNames :
          EntriesEnding(ingested'.fetched, name, "number") = {}
              => /\ WindowOf(windows', name) = WindowOf(windows, name)
                 /\ (name \in DOMAIN windows') = (name \in DOMAIN windows)]_vars

(* A cycle after which a window of four samples is as it was: of the two   *)
(* apps' fetches the first ended malformed, the second in a number.        *)
C16_Witness ==
    /\ DistinctNames
    /\ Len(config.critical_apps) = 2
    /\ ingested.fetched # <<>>
    /\ ingested.fetched[1].kind = "malformed"
    /\ ingested.fetched[2].kind = "number"
    /\ WindowOf(windows, config.critical_apps[1].name) = <<0, 6, 6, 0>>
    /\ cycle = 5

(* The last n elements of the sequence s *)
LastN(s, n) == SubSeq(s, Len(s) - n + 1, Len(s))

HistoryOf(name) ==
    IF name \in DOMAIN ingested.history THEN ingested.history[name] ELSE <<>>

(* C17: every window holds at most window_size samples and is exactly the  *)
(* most recent min(k, window_size) of the k samples ingested for the       *)
(* application, in arrival order.                                          *)
C17_WindowIsRecentSamples ==
    \A name \in AppNames \cup DOMAIN windows :
        LET w == WindowOf(windows, name)
            h == HistoryOf(name)
        IN  /\ Len(w) <= Control.window_size
            /\ w = LastN(h, Min(Len(h), Control.window_size))

(* A full window after one eviction: the sample evicted differs from the   *)
(* one that came in                                                        *)
C17_Witness ==
    \E name \in DOMAIN windows :
        /\ HistoryOf(name) = <<6, 0, 0, 6, 0, 0>>
        /\ windows[name] = <<0, 0, 6, 0, 0>>

(* C19: whenever a window holds fewer than 5 samples, the jitter reported  *)
(* and exported for the application is 0 whatever the samples are.         *)
C19_FewSamplesZeroJitter ==
    \A name \in AppNames :
        Len(WindowOf(windows, name)) < 5
            => /\ \A st \in StateOf(name) : st.jitter = 0
               /\ name \in DOMAIN udp_jitter_gauge => udp_jitter_gauge[name] = 0
               /\ name \in DOMAIN tcp_jitter_gauge => tcp_jitter_gauge[name] = 0

(* Four samples whose quartiles differ, just measured and exported *)
C19_Witness ==
    \E name \in DOMAIN windows :
        /\ windows[name] = <<0, 6, 0, 6>>
        /\ \E st \in StateOf(name) : st.jitter = 0 /\ st.latency = 6
        /\ name \in DOMAIN udp_jitter_gauge
        /\ udp_jitter_gauge[name] = 0

----------------------------------------------------------------------------
(* Properties of the jitter statistic (SpecJitter) *)

(* The sample at 0-based position i of the ascending arrangement of w: at  *)
(* most i samples are smaller and more than i are no larger.               *)
Kth(w, i) ==
    CHOOSE v \in Range(w) :
        /\ Cardinality({j \in 1..Len(w) : w[j] < v}) <= i
        /\ i < Cardinality({j \in 1..Len(w) : w[j] <= v})

(* w with the samples at positions i and i + 1 exchanged *)
Swapped(w, i) ==
    [j \in 1..Len(w) |-> IF j = i THEN w[i + 1] ELSE IF j = i + 1 THEN w[i] ELSE w[j]]

(* The jitter computed is the same for the window with any two neighbours  *)
(* exchanged, hence for every arrangement of the same samples.             *)
JitterOfMultiset ==
    \A i \in 1..(Len(scenario.before) - 1) :
        JitterIqr(Swapped(scenario.before, i), 10000) = scenario.jitter

(* x rounded to the nearest multiple of 10 ten-thousandths of a ms *)
ToThreeDigits(x) == CHOOSE r \in (x - 5)..(x + 5) : r % 10 = 0 /\ r - x \in -4..5

(* C18 as stated: for a window of n >= 5 samples the reported jitter       *)
(* equals sorted[floor(3n/4)] - sorted[floor(n/4)], is never negative and  *)
(* depends only on the multiset of samples.                                *)
C18_JitterIsQuartileDifference ==
    (scenario.op = "iqr" /\ Len(scenario.before) >= 5)
        => LET n == Len(scenario.before)
           IN  /\ scenario.jitter = Kth(scenario.before, (3 * n) \div 4)
                                        - Kth(scenario.before, n \div 4)
               /\ scenario.jitter >= 0
               /\ JitterOfMultiset

(* C18 amended: the reported jitter equals that difference rounded to      *)
(* three fractional digits of a millisecond.                               *)
C18_JitterIsRoundedQuartileDifference ==
    (scenario.op = "iqr" /\ Len(scenario.before) >= 5)
        => LET n == Len(scenario.before)
           IN  /\ scenario.jitter =
                      ToThreeDigits(Kth(scenario.before, (3 * n) \div 4)
                                        - Kth(scenario.before, n \div 4))
               /\ scenario.jitter >= 0
               /\ JitterOfMultiset

(* 5.0004 - 0 ms reported as 5 ms, of an unsorted window of six samples *)
C18_Witness ==
    /\ scenario.op = "iqr"
    /\ scenario.before = <<50004, 0, 50000, 4, 50004, 0>>
    /\ scenario.jitter = 50000

(* C20: adding a sample larger than every sample of a window of n >= 5     *)
(* samples, without eviction, moves the position Q3 is taken from by at    *)
(* most one: Q3 afterwards is the old Q3 or its successor in the old       *)
(* sorted order.                                                           *)
C20_Q3MovesAtMostOnePosition ==
    (scenario.op = "add" /\ Len(scenario.before) >= 5)
        => LET n == Len(scenario.before)
               old_idx == (3 * n) \div 4
           IN  /\ Len(TheWindow) = n + 1
               /\ \/ Q3(TheWindow) = Kth(scenario.before, old_idx)
                  \/ /\ old_idx + 1 <= n - 1
                     /\ Q3(TheWindow) = Kth(scenario.before, old_idx + 1)
               /\ Kth(scenario.before, old_idx) = Q3(scenario.before)

(* A very large sample on top of a window of six moves Q3 one up, from     *)
(* 5 ms to 5.0004 ms                                                       *)
C20_Witness ==
    /\ scenario.op = "add"
    /\ scenario.before = <<0, 50004, 4, 50000, 0, 4>>
    /\ TheWindow = Append(scenario.before, 9000000)
    /\ Q3(scenario.before) = 50000
    /\ Q3(TheWindow) = 50004

----------------------------------------------------------------------------
(* C21: a tick whose metrics fetch fails *)

(* The last tick measured no app: every fetch of the tick failed *)
FetchFailedTick == cycle > 0 /\ app_states = <<>>

(* The UDP apps whose existing window holds at least 5 samples *)
FullUdpWindows == {a \in UdpApps : Len(WindowOf(windows, a.name)) >= 5}

(* C21: on a tick where the metrics fetch fails the decision is computed   *)
(* from the existing windows: THROTTLE when a UDP app's window of at least *)
(* 5 samples is in violation, and MAINTAIN only when no UDP window holds 5 *)
(* samples.  A tick that takes no decision at all is read as MAINTAIN.     *)
C21_FailedFetchDecidesFromWindows ==
    FetchFailedTick =>
        /\ (\E a \in FullUdpWindows : WindowJitter(a) > a.max_jitter_ms)
              => decision.action = "throttle"
        /\ decision.action \in {"maintain", "none"} => FullUdpWindows = {}

----------------------------------------------------------------------------
(* The probe (src/src/probes/network_probe.py)                             *)

(* ProbeResult, without its timestamp *)
ProbeResult(latency_ms, success) == [latency_ms |-> latency_ms, success |-> success]

(* measure_udp_rtt(count=10) *)
UdpCount == 10

(* What the socket does for one datagram of a burst: the datagram read by  *)
(* recvfrom arrives `latency` ms after the send, or recvfrom times out, or *)
(* the send or the receive raises another error.                           *)
Reply(latency) == [kind |-> "reply", latency |-> latency]
Timeout == [kind |-> "timeout", latency |-> 0]
SocketError == [kind |-> "error", latency |-> 0]

RECURSIVE SumOf(_)
SumOf(s) == IF s = <<>> THEN 0 ELSE s[1] + SumOf(Tail(s))

(* sum(latencies) / len(latencies); the bursts of the model have replies   *)
(* of one latency, whose mean is that latency                              *)
Mean(latencies) == SumOf(latencies) \div Len(latencies)

(* measure_udp_rtt: a timeout skips the datagram, any other exception ends *)
(* the burst as a failure, whatever was collected                          *)
RECURSIVE MeasureUdpRtt(_, _, _)
MeasureUdpRtt(events, i, latencies) ==
    IF i > Len(events)
    THEN IF latencies # <<>> THEN ProbeResult(Some(Mean(latencies)), TRUE)
         ELSE ProbeResult(None, FALSE)
    ELSE IF events[i].kind = "error" THEN ProbeResult(None, FALSE)
    ELSE IF events[i].kind = "timeout" THEN MeasureUdpRtt(events, i + 1, latencies)
    ELSE MeasureUdpRtt(events, i + 1, Append(latencies, events[i].latency))

(* Bursts: every datagram answered; every second one lost; all lost; an    *)
(* error on the first datagram; an error after four replies                *)
UdpBursts ==
    {[i \in 1..UdpCount |-> Reply(v)] : v \in Samples}
      \cup {[i \in 1..UdpCount |-> IF i % 2 = 0 THEN Timeout ELSE Reply(v)] :
                v \in Samples}
      \cup {[i \in 1..UdpCount |-> Timeout]}
      \cup {[i \in 1..UdpCount |-> IF i < k THEN Reply(6) ELSE SocketError] :
                k \in {1, 5}}

(* What connect() does: the handshake completes after `latency` ms, or it  *)
(* raises socket.timeout, ConnectionRefusedError or another OSError        *)
TcpOutcomes ==
    {[kind |-> "connected", latency |-> v] : v \in Samples}
      \cup {[kind |-> k, latency |-> 0] : k \in {"timeout", "refused", "oserror"}}

(* measure_tcp_handshake *)
MeasureTcpHandshake(outcome) ==
    IF outcome.kind = "connected" THEN ProbeResult(Some(outcome.latency), TRUE)
    ELSE ProbeResult(None, FALSE)

(* measure_tcp_throughput: Mbps, 0.0 when the transfer fails *)
ThroughputOutcomes == {0, 94}

(* Mutant: a failed probe resets the latency gauge *)
SetGaugesResetting(result, latency_gauge) ==
    [success |-> Some(IF result.success THEN 1 ELSE 0),
     latency |-> IF result.success /\ result.latency_ms # None
                 THEN result.latency_ms ELSE Some(0)]

(* run_probe_cycle, the two gauges of one transport: the success gauge is  *)
(* always set, the latency gauge only from a successful result             *)
SetGauges(result, latency_gauge) ==
    [success |-> Some(IF result.success THEN 1 ELSE 0),
     latency |-> IF result.success /\ result.latency_ms # None
                 THEN result.latency_ms ELSE latency_gauge]

(* run_probe_cycle on the probe state p; the throughput is measured in     *)
(* every fifth cycle                                                       *)
RunProbeCycle(p, burst, tcp_outcome, throughput) ==
    LET udp_result == MeasureUdpRtt(burst, 1, <<>>)
        udp == SetGauges(udp_result, p.udp_latency)
        tcp_result == MeasureTcpHandshake(tcp_outcome)
        tcp == SetGauges(tcp_result, p.tcp_latency)
        counter == p.throughput_counter + 1
    IN  [udp_success |-> udp.success, udp_latency |-> udp.latency,
         tcp_success |-> tcp.success, tcp_latency |-> tcp.latency,
         throughput |-> IF counter >= 5 THEN Some(throughput) ELSE p.throughput,
         throughput_counter |-> IF counter >= 5 THEN 0 ELSE counter,
         cycles |-> p.cycles + 1,
         udp_result |-> udp_result, tcp_result |-> tcp_result]

(* The first line of /metrics that starts with the app's metric name and   *)
(* `{`: the latency gauge of the probe's one UDP (one TCP) target, which   *)
(* has no such line until it is first set                                  *)
ScrapeOf(p, app) ==
    LET gauge == IF app.protocol = "UDP" THEN p.udp_latency ELSE p.tcp_latency
    IN  IF gauge = None THEN [kind |-> "missing", value |-> 0]
        ELSE [kind |-> "number", value |-> gauge[1]]

(* The probe's main loop: one run_probe_cycle *)
ProbeCycle(maxp) ==
    /\ probe.cycles < maxp
    /\ \E burst \in UdpBursts, tcp_outcome \in TcpOutcomes,
          throughput \in ThroughputOutcomes :
         probe' = RunProbeCycle(probe, burst, tcp_outcome, throughput)
    /\ UNCHANGED <<config, windows, current_bandwidths, cycle, udp_jitter_gauge,
                   tcp_jitter_gauge, app_states, decision, patch_calls, shadow,
                   scenario, ingested, running, reflector, orchestrator>>

(* One iteration of control_loop next to the probe: every GET of /metrics  *)
(* fails or returns the probe's current gauges                             *)
TickScraping(maxc) ==
    TickWith(maxc,
             {fetch \in [1..Len(config.critical_apps) -> ScrapeOutcomes] :
                 \A i \in DOMAIN fetch :
                     \/ fetch[i].kind = "error"
                     \/ fetch[i] = ScrapeOf(probe, config.critical_apps[i])},
             TRUE)

(* Bounds of the combined system *)
ProbeCycles == 3
ProbeTicks == 3

InitProbe == Startup(UdpTcpFiles, {None}, FALSE)
ProbeStep == ProbeCycle(ProbeCycles)
ScrapeStep == TickScraping(ProbeTicks)
NextProbe == ProbeStep \/ ScrapeStep
SpecProbe == InitProbe /\ [][NextProbe]_vars

----------------------------------------------------------------------------
(* Properties of the probe and the controller side by side (SpecProbe) *)

(* sock.settimeout(0.2) of measure_udp_rtt and sock.settimeout(1.0) of     *)
(* measure_tcp_handshake, in ms                                            *)
UdpTimeoutMs == 200
TcpTimeoutMs == 1000

(* The probe of the app's transport failed in the last probe cycle *)
ProbeFailedFor(a) ==
    IF a.protocol = "UDP" THEN probe.udp_success = Some(0)
    ELSE probe.tcp_success = Some(0)

PenaltyOf(a) == IF a.protocol = "UDP" THEN UdpTimeoutMs ELSE TcpTimeoutMs

(* C22: when the probe of a critical target failed in the last probe cycle *)
(* (success gauge 0), the controller tick that reads the target's metrics  *)
(* appends either one penalty sample (the probe timeout in ms) to the      *)
(* app's window or no sample.  Either policy, kept for the lifetime of the *)
(* process, satisfies this formula.                                        *)
C22_FailedProbeAppendsPenaltyOrNothing ==
    [][cycle' = cycle + 1 =>
         \A a \in Apps :
            ProbeFailedFor(a) =>
               LET window == WindowOf(windows, a.name)
               IN  \/ WindowOf(windows', a.name) = window
                   \/ WindowOf(windows', a.name) =
                          DequeAppend(window, PenaltyOf(a), Control.window_size)]_vars

(* One probe cycle has run *)
ProbeCycled == probe'.cycles = probe.cycles + 1

(* C23: in a probe cycle where the UDP (TCP) probe fails, its success      *)
(* gauge becomes 0 and its latency gauge keeps its previous value; the     *)
(* gauges of the other transport are set from that transport's own result  *)
(* only: success 1 with the measured latency, or success 0 with the        *)
(* latency gauge as it was.                                                *)
C23_FailedProbeKeepsLatencyGauge ==
    [][ProbeCycled =>
         /\ ~probe'.udp_result.success =>
               /\ probe'.udp_success = Some(0)
               /\ probe'.udp_latency = probe.udp_latency
               /\ probe'.tcp_success = Some(IF probe'.tcp_result.success THEN 1 ELSE 0)
               /\ probe'.tcp_latency = IF probe'.tcp_result.success
                                       THEN probe'.tcp_result.latency_ms
                                       ELSE probe.tcp_latency
         /\ ~probe'.tcp_result.success =>
               /\ probe'.tcp_success = Some(0)
               /\ probe'.tcp_latency = probe.tcp_latency
               /\ probe'.udp_success = Some(IF probe'.udp_result.success THEN 1 ELSE 0)
               /\ probe'.udp_latency = IF probe'.udp_result.success
                                       THEN probe'.udp_result.latency_ms
                                       ELSE probe.udp_latency]_vars

(* A failed UDP probe after a successful one, next to a successful TCP     *)
(* probe: the UDP latency gauge still holds 6, the TCP gauges 1 and 0      *)
C23_Witness ==
    /\ probe.cycles >= 2
    /\ ~probe.udp_result.success
    /\ probe.udp_success = Some(0)
    /\ probe.udp_latency = Some(6)
    /\ probe.tcp_result = ProbeResult(Some(0), TRUE)
    /\ probe.tcp_success = Some(1)
    /\ probe.tcp_latency = Some(0)

----------------------------------------------------------------------------
(* The reflector (src/src/probes/udp_server.py)                            *)

(* sock.recvfrom(1024) *)
BufSize == 1024

(* A datagram payload of n bytes *)
Payload(n) == [i \in 1..n |-> (7 * i) % 256]

(* Payload lengths: empty, short, exactly the buffer, one byte more *)
PayloadLengths == {0, 8, BufSize, BufSize + 1}
Senders == {"network-probe", "other-client"}
Datagrams == {[data |-> Payload(n), addr |-> a] : n \in PayloadLengths, a \in Senders}

(* sock.recvfrom(bufsize) on a datagram socket: the first bufsize bytes of *)
(* the datagram at the head of the queue; the rest of it is discarded      *)
Recvfrom(datagram, bufsize) ==
    [data |-> SubSeq(datagram.data, 1, Min(Len(datagram.data), bufsize)),
     addr |-> datagram.addr]

(* Bound: datagrams sent to the reflector in one run *)
MaxDatagrams == 3

(* A client's datagram reaches the reflector's socket *)
Arrive ==
    /\ reflector.received < MaxDatagrams
    /\ \E d \in Datagrams :
         reflector' = [reflector EXCEPT !.socket = Append(@, d),
                                        !.arrived = Append(@, d),
                                        !.received = @ + 1]
    /\ UNCHANGED <<config, windows, current_bandwidths, cycle, udp_jitter_gauge,
                   tcp_jitter_gauge, app_states, decision, patch_calls, shadow,
                   scenario, ingested, running, probe, orchestrator>>

(* One iteration of the reflector's loop: recvfrom, then sendto.  Either   *)
(* call may raise OSError; nothing catches it and the process ends.        *)
Echo ==
    /\ reflector.running
    /\ reflector.socket # <<>>
    /\ \E outcome \in {"echoed", "recv_error", "send_error"} :
         LET d == Recvfrom(Head(reflector.socket), BufSize)
         IN  reflector' =
               IF outcome = "recv_error"
               THEN [reflector EXCEPT !.running = FALSE]
               ELSE IF outcome = "send_error"
               THEN [reflector EXCEPT !.running = FALSE, !.socket = Tail(@)]
               ELSE [reflector EXCEPT !.socket = Tail(@), !.sent = Append(@, d)]
    /\ UNCHANGED <<config, windows, current_bandwidths, cycle, udp_jitter_gauge,
                   tcp_jitter_gauge, app_states, decision, patch_calls, shadow,
                   scenario, ingested, running, probe, orchestrator>>

(* The reflector alone; the controller's variables are those of a started  *)
(* controller and stay as they are                                         *)
InitReflector == Startup(UdpTcpFiles, {None}, FALSE)
NextReflector == Arrive \/ Echo
SpecReflector == InitReflector /\ [][NextReflector]_vars

(* C24: every datagram sent back equals, byte for byte and in its address, *)
(* the datagram received, and the datagrams are echoed in the order        *)
(* received: the i-th datagram sent is the i-th datagram that arrived.     *)
C24_EchoIsVerbatimInOrder ==
    \A i \in 1..Len(reflector.sent) : reflector.sent[i] = reflector.arrived[i]

(* C25: the receive/echo loop never ends because of a socket error *)
C25_ReflectorKeepsRunning == reflector.running

----------------------------------------------------------------------------
(* The control loop under a threshold of 0 *)

(* Files validate() accepts: max_jitter_ms is not looked at.  A UDP app    *)
(* with threshold 0 or 5, alone or followed by a TCP app with threshold 0  *)
ZeroJitterFiles ==
    {[control |-> DefaultControl,
      critical_apps |-> <<CriticalAppConfig("robot-control", "UDP", mj, 10)>>,
      best_effort_targets |-> OneTarget] : mj \in {0, 5}}
      \cup
    {[control |-> DefaultControl,
      critical_apps |-> <<CriticalAppConfig("robot-control", "UDP", mj, 10),
                          CriticalAppConfig("safety-scanner", "TCP", 0, 5)>>,
      best_effort_targets |-> OneTarget] : mj \in {0, 5}}

InitZero == Startup(ZeroJitterFiles, {None}, FALSE)
NextZero == Tick(MaxCycles)
SpecZero == InitZero /\ [][NextZero]_vars

(* C26: once the configuration is loaded and validated the control loop    *)
(* never terminates: whatever is raised during a tick, for any accepted    *)
(* max_jitter_ms including 0, the loop proceeds to the next tick.          *)
C26_ControlLoopNeverTerminates == running

----------------------------------------------------------------------------
(* The bandwidth annotation (kubernetes.io/egress-bandwidth).  A text is a *)
(* sequence of one-character strings.                                      *)

DigitChars == <<"0", "1", "2", "3", "4", "5", "6", "7", "8", "9">>
IsDigit(c) == \E i \in 1..Len(DigitChars) : DigitChars[i] = c
DigitOf(c) == CHOOSE d \in 0..9 : DigitChars[d + 1] = c

(* str.replace(old, new) for a one-character old *)
RECURSIVE Replace(_, _, _)
Replace(s, old, new) ==
    IF s = <<>> THEN <<>>
    ELSE (IF s[1] = old THEN new ELSE <<s[1]>>) \o Replace(Tail(s), old, new)

RECURSIVE DigitsValue(_, _)
DigitsValue(s, acc) ==
    IF s = <<>> THEN acc ELSE DigitsValue(Tail(s), 10 * acc + DigitOf(s[1]))

(* int(text): an optional sign and at least one digit, leading zeros       *)
(* allowed; anything else raises ValueError, here None                     *)
IntOf(s) ==
    LET signed == s # <<>> /\ s[1] \in {"-", "+"}
        body == IF signed THEN Tail(s) ELSE s
    IN  IF body = <<>> \/ \E i \in 1..Len(body) : ~IsDigit(body[i]) THEN None
        ELSE Some((IF signed /\ s[1] = "-" THEN -1 ELSE 1) * DigitsValue(body, 0))

RECURSIVE StrOfNat(_)
StrOfNat(n) ==
    IF n < 10 THEN <<DigitChars[n + 1]>>
    ELSE StrOfNat(n \div 10) \o <<DigitChars[(n % 10) + 1]>>

(* str(n) of an int *)
StrOfInt(n) == IF n < 0 THEN <<"-">> \o StrOfNat(-n) ELSE StrOfNat(n)

(* _patch_deployment_bandwidth, the annotation written: f"{bandwidth}M" *)
FormatBandwidth(bandwidth_mbps) == StrOfInt(bandwidth_mbps) \o <<"M">>

(* _get_current_bandwidth, the conversion of the annotation text:          *)
(* int(bw_str.replace('M','').replace('m','').replace('G','000')           *)
(*            .replace('g','000'))                                         *)
ParseBandwidth(bw_str) ==
    IntOf(Replace(Replace(Replace(Replace(bw_str,
              "M", <<>>), "m", <<>>),
              "G", <<"0", "0", "0">>), "g", <<"0", "0", "0">>))

(* What read_namespaced_deployment returns: it raises (API unreachable,    *)
(* deployment not found), or the deployment carries the annotation text,   *)
(* or it carries no such annotation (None)                                 *)
ApiError == [kind |-> "error", annotation |-> None]
ApiDeployment(annotation) == [kind |-> "deployment", annotation |-> annotation]

(* _get_current_bandwidth: a missing annotation reads as '0M'; whatever is *)
(* raised gives None                                                       *)
GetCurrentBandwidth(read) ==
    IF read.kind = "error" THEN None
    ELSE LET bw_str == IF read.annotation = None THEN <<"0", "M">>
                       ELSE read.annotation[1]
         IN  ParseBandwidth(bw_str)

----------------------------------------------------------------------------
(* The API server as the controller sees it.  `orchestrator` holds         *)
(*   reachable    calls reach the API server                               *)
(*   deployments  <<namespace, name>> -> [exists, annotation]              *)
(*   rejected     history: deployments a patch of which was rejected       *)
(*                because the deployment does not exist                    *)
(*   failed_run   history: length of the current run of failed calls       *)
(*   reconnected  history: in the last tick a call succeeded after a       *)
(*                sustained run of failed calls                            *)

KeyOf(t) == <<t.namespace, t.deployment>>

(* read_namespaced_deployment(deployment, namespace) *)
ApiRead(orch, key) ==
    IF ~orch.reachable \/ ~orch.deployments[key].exists THEN ApiError
    ELSE ApiDeployment(orch.deployments[key].annotation)

(* patch_namespaced_deployment raises when the API server is unreachable   *)
(* and when the deployment does not exist (404)                            *)
PatchSucceeds(orch, key) == orch.reachable /\ orch.deployments[key].exists

(* A run of failed calls is sustained when it is at least as long as the   *)
(* list of targets: every read of a startup, every patch of a tick         *)
Sustained(orch, targets) == orch.failed_run >= Len(targets)

(* The reads of __init__, target by target *)
RECURSIVE AfterReads(_, _, _)
AfterReads(orch, targets, i) ==
    IF i > Len(targets) THEN orch
    ELSE LET failed == ApiRead(orch, KeyOf(targets[i])).kind = "error"
         IN  AfterReads([orch EXCEPT !.failed_run = IF failed THEN @ + 1 ELSE 0],
                        targets, i + 1)

(* The patches of one _apply_bandwidth_changes, call by call: a successful *)
(* patch stores f"{new_bw}M" in the deployment's annotation                *)
RECURSIVE AfterPatches(_, _, _, _)
AfterPatches(orch, targets, calls, i) ==
    IF i > Len(calls) THEN orch
    ELSE LET c == calls[i]
             key == <<c.namespace, c.deployment>>
         IN  IF ~c.patched THEN AfterPatches(orch, targets, calls, i + 1)
             ELSE IF c.success
             THEN AfterPatches(
                    [orch EXCEPT
                       !.deployments[key].annotation = Some(FormatBandwidth(c.new_bw)),
                       !.reconnected = @ \/ Sustained(orch, targets),
                       !.failed_run = 0],
                    targets, calls, i + 1)
             ELSE AfterPatches(
                    [orch EXCEPT
                       !.failed_run = @ + 1,
                       !.rejected = IF orch.reachable THEN @ \cup {key} ELSE @],
                    targets, calls, i + 1)

(* main(): load, validate, construct the controller against the API server *)
(* state orch: every target's bandwidth is read from its annotation.       *)
(* The bookkeeping variable `scenario` is left to the caller.              *)
StartupFrom(cfg, orch) ==
    LET targets == cfg.best_effort_targets
        reads == [i \in 1..Len(targets) |->
                     GetCurrentBandwidth(ApiRead(orch, KeyOf(targets[i])))]
    IN  /\ Validate(cfg)
        /\ config = cfg
        /\ current_bandwidths = InitBandwidths(targets, reads, 1, <<>>)
        /\ windows = <<>>
        /\ cycle = 0
        /\ udp_jitter_gauge = <<>>
        /\ tcp_jitter_gauge = <<>>
        /\ app_states = <<>>
        /\ decision = NoDecision
        /\ patch_calls = <<>>
        /\ shadow = NoShadow
        /\ ingested = NoIngest
        /\ running = TRUE
        /\ probe = NoProbe
        /\ reflector = NoReflector
        /\ orchestrator = AfterReads(orch, targets, 1)

(* The API server states in which every target's deployment exists or not  *)
(* and carries one of `annotations`                                        *)
Orchestrators(targets, annotations) ==
    LET keys == {KeyOf(targets[i]) : i \in 1..Len(targets)}
    IN  {[NoOrchestrator EXCEPT !.reachable = r, !.deployments = d] :
            r \in BOOLEAN,
            d \in [keys -> [exists : BOOLEAN, annotation : annotations]]}

----------------------------------------------------------------------------
(* Reading and writing one annotation (SpecAnnotation) *)

AnnotationNumbers ==
    {<<"0">>, <<"5">>, <<"0", "0", "7">>, <<"5", "0", "0">>, <<"1", "0", "0", "0">>}
Suffixes == {"M", "m", "K", "k", "G", "g"}

(* <digits><suffix>, and a text that is no quantity at all *)
AnnotationTexts ==
    {n \o <<x>> : n \in AnnotationNumbers, x \in Suffixes} \cup {<<"f", "a", "s", "t">>}

(* Values _patch_deployment_bandwidth is called with *)
WrittenValues == (10..40) \cup {-5, 0, 500, 1000}

TheTarget == config.best_effort_targets[1]
TheAnnotation == orchestrator.deployments[KeyOf(TheTarget)].annotation

(* One target of initial_bandwidth 750 whose deployment, if it exists,     *)
(* carries one of the annotation texts or none                             *)
InitAnnotation ==
    LET cfg == ParseConfig(AimdFile(750, 10))
    IN  /\ \E orch \in Orchestrators(cfg.best_effort_targets,
                          {None} \cup {Some(t) : t \in AnnotationTexts}) :
              StartupFrom(cfg, orch)
        /\ scenario = [op |-> "none", written |-> None, result |-> None]

(* _get_current_bandwidth on the target *)
ReadAnnotation ==
    /\ scenario.op # "read"
    /\ scenario' = [scenario EXCEPT
          !.op = "read",
          !.result = GetCurrentBandwidth(ApiRead(orchestrator, KeyOf(TheTarget)))]
    /\ UNCHANGED <<config, windows, current_bandwidths, cycle, udp_jitter_gauge,
                   tcp_jitter_gauge, app_states, decision, patch_calls, shadow,
                   ingested, running, peers>>

(* _patch_deployment_bandwidth on the target, the API server accepting it *)
WriteAnnotation ==
    /\ scenario.written = None
    /\ PatchSucceeds(orchestrator, KeyOf(TheTarget))
    /\ \E n \in WrittenValues :
         /\ orchestrator' = [orchestrator EXCEPT
                !.deployments[KeyOf(TheTarget)].annotation = Some(FormatBandwidth(n))]
         /\ scenario' = [op |-> "write", written |-> Some(n), result |-> None]
    /\ UNCHANGED <<config, windows, current_bandwidths, cycle, udp_jitter_gauge,
                   tcp_jitter_gauge, app_states, decision, patch_calls, shadow,
                   ingested, running, probe, reflector>>

NextAnnotation == ReadAnnotation \/ WriteAnnotation
SpecAnnotation == InitAnnotation /\ [][NextAnnotation]_vars

(* The read reached the deployment and found an annotation *)
AnnotationRead ==
    /\ scenario.op = "read"
    /\ ApiRead(orchestrator, KeyOf(TheTarget)).kind = "deployment"
    /\ TheAnnotation # None

(* <digits><suffix> with a suffix of the accepted set *)
IsSuffixed(text) ==
    /\ Len(text) >= 2
    /\ text[Len(text)] \in Suffixes
    /\ \A i \in 1..(Len(text) - 1) : IsDigit(text[i])

LeadingInteger(text) == DigitsValue(SubSeq(text, 1, Len(text) - 1), 0)
Multiplier(text) == IF text[Len(text)] \in {"G", "g"} THEN 1000 ELSE 1

(* C30: reading an annotation of the form <digits><suffix> succeeds for    *)
(* every suffix in {M, m, K, k, G, g} and gives the leading integer, times *)
(* 1000 for G and g; every value N written as "<N>M" is read back as N.    *)
C30_AnnotationParsesAnySuffix ==
    AnnotationRead =>
        /\ IsSuffixed(TheAnnotation[1]) =>
              scenario.result =
                  Some(LeadingInteger(TheAnnotation[1]) * Multiplier(TheAnnotation[1]))
        /\ scenario.written # None => scenario.result = scenario.written

(* The same for the suffixes the code strips: M, m, G and g *)
C30_AnnotationParsesMegaGiga ==
    AnnotationRead =>
        /\ (IsSuffixed(TheAnnotation[1])
               /\ TheAnnotation[1][Len(TheAnnotation[1])] \notin {"K", "k"}) =>
              scenario.result =
                  Some(LeadingInteger(TheAnnotation[1]) * Multiplier(TheAnnotation[1]))
        /\ scenario.written # None => scenario.result = scenario.written

(* C29: at startup the in-memory bandwidth of the target equals the value  *)
(* of its annotation whenever the annotation can be read and parsed, and   *)
(* the configured initial_bandwidth exactly when the read fails or the     *)
(* value is unreadable.  Parsed is what _get_current_bandwidth parses.     *)
C29_StartupReadsAnnotation ==
    scenario.op = "none" =>
        LET read == ApiRead(orchestrator, KeyOf(TheTarget))
            readable == /\ read.kind = "deployment"
                        /\ read.annotation # None
                        /\ ParseBandwidth(read.annotation[1]) # None
            in_memory == current_bandwidths[TheTarget.deployment]
        IN  IF readable
            THEN in_memory = ParseBandwidth(read.annotation[1])[1]
            ELSE in_memory = TheTarget.initial_bandwidth

----------------------------------------------------------------------------
(* The controller and the API server side by side (SpecApi) *)

(* One UDP app and two targets in different deployments; the second starts *)
(* below the ceiling                                                       *)
ApiFiles ==
    {[control |-> DefaultControl,
      critical_apps |-> <<CriticalAppConfig("robot-control", "UDP", 5, 10)>>,
      best_effort_targets |-> <<BestEffortTarget("batch", "default", 1000),
                                BestEffortTarget("etl", "default", 500)>>]}

ApiAnnotations ==
    {None, Some(<<"5", "0", "0", "M">>), Some(<<"9", "9", "5", "M">>)}

(* Bound: control ticks next to the API server *)
ApiTicks == 3

InitApi ==
    /\ \E file \in ApiFiles :
         LET cfg == ParseConfig(file)
         IN  \E orch \in Orchestrators(cfg.best_effort_targets, ApiAnnotations) :
                StartupFrom(cfg, orch)
    /\ scenario = NoScenario

(* One iteration of control_loop, every patch answered by the API server   *)
TickApi ==
    /\ running
    /\ cycle < ApiTicks
    /\ \E fetch \in [1..Len(config.critical_apps) -> FetchOutcomes] :
         LET targets == config.best_effort_targets
             m == Measure(config, windows, udp_jitter_gauge, tcp_jitter_gauge, fetch)
             patch_ok == [i \in 1..Len(targets) |->
                             PatchSucceeds(orchestrator, KeyOf(targets[i]))]
             r == DecideAndApply(config, m.app_states, current_bandwidths, patch_ok)
         IN  /\ CycleEffect(m, r)
             /\ orchestrator' =
                   AfterPatches([orchestrator EXCEPT !.reconnected = FALSE], targets,
                                IF m.raised THEN <<>> ELSE r.calls, 1)
             /\ UNCHANGED <<shadow, ingested>>

(* Someone deletes a target's deployment *)
DeleteDeployment ==
    /\ \E key \in DOMAIN orchestrator.deployments :
         /\ orchestrator.deployments[key].exists
         /\ orchestrator' = [orchestrator EXCEPT !.deployments[key].exists = FALSE]
    /\ UNCHANGED <<config, windows, current_bandwidths, cycle, udp_jitter_gauge,
                   tcp_jitter_gauge, app_states, decision, patch_calls, shadow,
                   scenario, ingested, running, probe, reflector>>

(* The API server becomes unreachable, or reachable again *)
Connectivity ==
    /\ orchestrator' = [orchestrator EXCEPT !.reachable = ~@]
    /\ UNCHANGED <<config, windows, current_bandwidths, cycle, udp_jitter_gauge,
                   tcp_jitter_gauge, app_states, decision, patch_calls, shadow,
                   scenario, ingested, running, probe, reflector>>

NextApi == TickApi \/ DeleteDeployment \/ Connectivity
SpecApi == InitApi /\ [][NextApi]_vars

(* C27: once a patch was rejected because the deployment no longer exists, *)
(* the target is removed from the in-memory control state and no further   *)
(* patch is attempted for it.                                              *)
C27_GoneTargetIsDropped ==
    [][/\ \A key \in orchestrator'.rejected :
            \A t \in Targets :
               KeyOf(t) = key => t.deployment \notin DOMAIN current_bandwidths'
       /\ cycle' = cycle + 1 =>
            \A key \in orchestrator.rejected :
               \A i \in 1..Len(patch_calls') :
                  patch_calls'[i].patched =>
                     <<patch_calls'[i].namespace, patch_calls'[i].deployment>> # key]_vars

(* C28: after a reconnection (a call succeeds after a sustained run of     *)
(* failed calls) the in-memory bandwidth of every target equals the value  *)
(* stored in its deployment's annotation.                                  *)
C28_ResyncedAfterReconnection ==
    orchestrator.reconnected =>
        \A t \in Targets :
           LET d == orchestrator.deployments[KeyOf(t)]
           IN  (d.exists /\ d.annotation # None) =>
                   ParseBandwidth(d.annotation[1]) = Some(current_bandwidths[t.deployment])

----------------------------------------------------------------------------
(* main(): load, validate, then __init__ and control_loop.  The control    *)
(* section of a file here carries the two intervals next to the fields of  *)
(* ControlConfig; scenario.exit_code is the status of sys.exit.            *)

MainTicks == 2

MainControl(w, lo, hi, probe_interval, control_interval) ==
    [window_size |-> w, step_up |-> 10, min_bandwidth |-> lo, max_bandwidth |-> hi,
     probe_interval |-> probe_interval, control_interval |-> control_interval]

(* Files that break none, one or several of the rules: window sizes 3 and  *)
(* 5, intervals 0 and positive, bounds in and out of order, protocols in   *)
(* the exact and in other spellings, empty and non-empty lists.            *)
MainFiles ==
    {[control |-> MainControl(w, b[1], b[2], pi, ci),
      critical_apps |-> apps,
      best_effort_targets |-> targets] :
        w \in {3, 5}, b \in {<<10, 1000>>, <<10, 10>>, <<1000, 10>>},
        pi \in {0, 1}, ci \in {0, 5},
        apps \in {<<>>} \cup
                 {<<CriticalAppConfig("robot-control", proto, 5, 10)>> :
                      proto \in {"UDP", "TCP", "udp", "ICMP"}},
        targets \in {<<>>, OneTarget}}

(* main: sys.exit(1) when validate returns False, otherwise                *)
(* BandwidthController(config) and control_loop()                          *)
Main(files) ==
    \E file \in files :
      LET cfg == ParseConfig(file)
          ok == Validate(cfg)
      IN  /\ config = cfg
          /\ current_bandwidths =
                 (IF ok THEN InitBandwidths(cfg.best_effort_targets,
                                 [i \in 1..Len(cfg.best_effort_targets) |-> None],
                                 1, <<>>)
                        ELSE <<>>)
          /\ windows = <<>>
          /\ cycle = 0
          /\ udp_jitter_gauge = <<>>
          /\ tcp_jitter_gauge = <<>>
          /\ app_states = <<>>
          /\ decision = NoDecision
          /\ patch_calls = <<>>
          /\ shadow = NoShadow
          /\ scenario = [exit_code |-> IF ok THEN None ELSE Some(1)]
          /\ ingested = NoIngest
          /\ running = ok
          /\ NoPeers

InitMain == Main(MainFiles)
NextMain == Tick(MainTicks)
SpecMain == InitMain /\ [][NextMain]_vars

(* The rules the startup validation is said to enforce *)
ViolatesStartupRule(cfg) ==
    \/ cfg.critical_apps = <<>>
    \/ cfg.best_effort_targets = <<>>
    \/ ~(cfg.control.min_bandwidth < cfg.control.max_bandwidth)
    \/ \E i \in 1..Len(cfg.critical_apps) :
           cfg.critical_apps[i].protocol \notin {"UDP", "TCP"}
    \/ ~(cfg.control.window_size >= 5)
    \/ ~(cfg.control.probe_interval > 0)
    \/ ~(cfg.control.control_interval > 0)

(* C31: for every configuration that violates one of the rules             *)
(* (critical_apps non-empty, best_effort_targets non-empty, min_bandwidth  *)
(* < max_bandwidth, protocols in {UDP, TCP}, window_size >= 5, both        *)
(* intervals > 0) the process has exited non-zero, no tick of the control  *)
(* loop has run and no patch was issued.                                   *)
C31_InvalidConfigExits ==
    ViolatesStartupRule(config) =>
        /\ ~running
        /\ scenario.exit_code = Some(1)
        /\ cycle = 0
        /\ patch_calls = <<>>

(* The four rules validate checks do stop the process before the loop *)
C31_CheckedRulesExit ==
    ~Validate(config) =>
        /\ ~running
        /\ scenario.exit_code = Some(1)
        /\ cycle = 0
        /\ patch_calls = <<>>

----------------------------------------------------------------------------
(* calculate_bandwidth_limit (flow_manager.py), the standalone asymmetric  *)
(* AIMD function the algorithm tests exercise; jitter in ms, throughput    *)
(* and limits in Mbps.                                                     *)

MAX_JITTER == 5
MIN_THROUGHPUT == 50
MIN_BW == 10
MAX_BW == 1000
THROTTLE_STEP == 100
RECOVERY_STEP == 10

(* The function with `and` between the two violations *)
CalculateBandwidthLimitBoth(current_limit_mbps, jitter_ms, throughput_mbps) ==
    LET new_limit == IF jitter_ms > MAX_JITTER /\ throughput_mbps < MIN_THROUGHPUT
                     THEN current_limit_mbps - THROTTLE_STEP
                     ELSE current_limit_mbps + RECOVERY_STEP
    IN  Max(MIN_BW, Min(MAX_BW, new_limit))

calculate_bandwidth_limit(current_limit_mbps, jitter_ms, throughput_mbps) ==
    LET jitter_violation == jitter_ms > MAX_JITTER
        throughput_violation == throughput_mbps < MIN_THROUGHPUT
        new_limit == IF jitter_violation \/ throughput_violation
                     THEN current_limit_mbps - THROTTLE_STEP
                     ELSE current_limit_mbps + RECOVERY_STEP
    IN  Max(MIN_BW, Min(MAX_BW, new_limit))

(* Inputs: limits below, inside and above [10, 1000]; jitter and           *)
(* throughput on both sides of and at their thresholds, with the values of *)
(* the algorithm tests (2, 8, 10, 1 ms; 80, 30, 20, 100 Mbps).             *)
CurrentLimits == (0 - 150)..1150
JitterInputs == {0, 1, 2, 5, 6, 8, 10}
ThroughputInputs == {0, 20, 30, 49, 50, 51, 80, 100}

(* A controller that has been constructed and has not ticked *)
ControllerIdle ==
    /\ config = ParseConfig(AimdFile(1000, 10))
    /\ current_bandwidths =
           InitBandwidths(config.best_effort_targets, <<None>>, 1, <<>>)
    /\ windows = <<>>
    /\ cycle = 0
    /\ udp_jitter_gauge = <<>>
    /\ tcp_jitter_gauge = <<>>
    /\ app_states = <<>>
    /\ decision = NoDecision
    /\ patch_calls = <<>>
    /\ shadow = NoShadow
    /\ ingested = NoIngest
    /\ running = TRUE

InitLimit ==
    /\ ControllerIdle
    /\ NoPeers
    /\ \E c \in CurrentLimits, j \in JitterInputs, t \in ThroughputInputs :
           scenario = [current |-> c, jitter |-> j, throughput |-> t,
                       result |-> None]

CalculateLimit ==
    /\ scenario.result = None
    /\ scenario' = [scenario EXCEPT !.result =
           Some(calculate_bandwidth_limit(scenario.current, scenario.jitter,
                                          scenario.throughput))]
    /\ UNCHANGED <<config, windows, current_bandwidths, cycle, udp_jitter_gauge,
                   tcp_jitter_gauge, app_states, decision, patch_calls, shadow,
                   ingested, running, peers>>

NextLimit == CalculateLimit
SpecLimit == InitLimit /\ [][NextLimit]_vars

(* C32: calculate_bandwidth_limit(current, jitter, throughput) is          *)
(* clamp(current - 100, 10, 1000) when jitter > 5.0 or throughput < 50.0,  *)
(* clamp(current + 10, 10, 1000) otherwise, and always lies in [10, 1000]. *)
C32_LimitIsClampedStep ==
    scenario.result # None =>
        LET moved == IF scenario.jitter > 5 \/ scenario.throughput < 50
                     THEN scenario.current - 100
                     ELSE scenario.current + 10
            clamped == IF moved < 10 THEN 10
                       ELSE IF moved > 1000 THEN 1000 ELSE moved
        IN  /\ scenario.result = Some(clamped)
            /\ scenario.result[1] >= 10
            /\ scenario.result[1] <= 1000

(* The lower clamp acts on a throttle caused by throughput alone *)
C32_Witness ==
    /\ scenario.result = Some(10)
    /\ scenario.current = 50
    /\ scenario.jitter = 2
    /\ scenario.throughput = 30

(* The upper clamp acts on a recovery *)
C32_WitnessUpper ==
    /\ scenario.result = Some(1000)
    /\ scenario.current = 995
    /\ scenario.jitter = 5
    /\ scenario.throughput = 50

----------------------------------------------------------------------------
(* Bandwidth per target (SpecTargets).  shadow.bandwidths is a history     *)
(* keyed by (namespace, deployment): the value __init__ obtained for the   *)
(* target, then the value of the last patch that succeeded for it.         *)
(* shadow.bandwidth_limit_gauge holds the children of the exported gauge   *)
(* flowmanager_bandwidth_limit_mbps, keyed by their labels; a child exists *)
(* once .labels(...) has been called for it.                               *)

(* __init__ for target i: `bw if bw else target.initial_bandwidth` *)
StartupValue(t, bw) == IF bw # None /\ bw[1] # 0 THEN bw[1] ELSE t.initial_bandwidth

StartupValues(targets, reads) ==
    [k \in {KeyOf(targets[i]) : i \in 1..Len(targets)} |->
        LET i == CHOOSE j \in 1..Len(targets) : KeyOf(targets[j]) = k
        IN  StartupValue(targets[i], reads[i])]

(* The successful patches of one _apply_bandwidth_changes, call by call *)
RECURSIVE LastPatched(_, _, _)
LastPatched(last, calls, i) ==
    IF i > Len(calls) THEN last
    ELSE LET c == calls[i]
         IN  LastPatched(IF c.patched /\ c.success
                         THEN [last EXCEPT ![<<c.namespace, c.deployment>>] = c.new_bw]
                         ELSE last,
                         calls, i + 1)

(* _apply_bandwidth_changes, call by call: after a successful patch       *)
(* bandwidth_limit_gauge.labels(deployment, namespace).set(new_bw)         *)
RECURSIVE ExportBandwidthLimit(_, _, _)
ExportBandwidthLimit(gauge, calls, i) ==
    IF i > Len(calls) THEN gauge
    ELSE LET c == calls[i]
             key == <<c.namespace, c.deployment>>
         IN  ExportBandwidthLimit(
                 IF c.patched /\ c.success
                 THEN [k \in DOMAIN gauge \cup {key} |->
                          IF k = key THEN c.new_bw ELSE gauge[k]]
                 ELSE gauge,
                 calls, i + 1)

TargetReads == {None, Some(995)}

InitTargets ==
    \E file \in TargetsFiles :
      LET cfg == ParseConfig(file)
      IN  /\ Validate(cfg)
          /\ \E reads \in [1..Len(cfg.best_effort_targets) -> TargetReads] :
               /\ config = cfg
               /\ current_bandwidths =
                      InitBandwidths(cfg.best_effort_targets, reads, 1, <<>>)
               /\ windows = <<>>
               /\ cycle = 0
               /\ udp_jitter_gauge = <<>>
               /\ tcp_jitter_gauge = <<>>
               /\ app_states = <<>>
               /\ decision = NoDecision
               /\ patch_calls = <<>>
               /\ shadow = [windows |-> <<>>, calls |-> <<>>,
                             bandwidths |->
                                 StartupValues(cfg.best_effort_targets, reads),
                             bandwidth_limit_gauge |-> <<>>]
               /\ scenario = NoScenario
               /\ ingested = NoIngest
               /\ running = TRUE
               /\ NoPeers

(* One iteration of control_loop, the successful patches recorded *)
TickTargets(maxc) ==
    /\ running
    /\ cycle < maxc
    /\ \E fetch \in [1..Len(config.critical_apps) -> FetchOutcomes] :
         LET m == Measure(config, windows, udp_jitter_gauge, tcp_jitter_gauge, fetch)
         IN  \E patch_ok \in PatchResults(config,
                    PatchNeeded(config, m.app_states, current_bandwidths)) :
               LET r == DecideAndApply(config, m.app_states, current_bandwidths,
                                       patch_ok)
               IN  /\ CycleEffect(m, r)
                   /\ shadow' = [shadow EXCEPT
                          !.bandwidths =
                              IF m.raised THEN @ ELSE LastPatched(@, r.calls, 1),
                          !.bandwidth_limit_gauge =
                              IF m.raised THEN @
                              ELSE ExportBandwidthLimit(@, r.calls, 1)]
                   /\ UNCHANGED <<ingested, orchestrator>>

NextTargets == TickTargets(MaxCycles)
SpecTargets == InitTargets /\ [][NextTargets]_vars

(* C33: for every best-effort target (namespace, deployment) the in-memory *)
(* bandwidth the controller holds for it equals the value of the last      *)
(* patch that succeeded for that target, or its startup value if none has, *)
(* also when two targets share a deployment name in different namespaces.  *)
C33_BandwidthIsLastOwnPatch ==
    \A t \in Targets :
        current_bandwidths[t.deployment] = shadow.bandwidths[KeyOf(t)]

(* The same restricted to configurations whose deployment names differ *)
C33_DistinctDeploymentsAgree ==
    (\A t, u \in Targets : t.deployment = u.deployment => t = u)
        => C33_BandwidthIsLastOwnPatch

----------------------------------------------------------------------------
(* The probe's /metrics text and the controller's parse of it (SpecHosts). *)
(* A line is [metric, target, value]; the probe labels its gauges with the *)
(* host it measures, and it measures one UDP host and one TCP host.        *)

ROBOT_CONTROL_HOST == "robot-control-svc.default.svc.cluster.local"
SAFETY_SCANNER_HOST == "safety-scanner-svc.default.svc.cluster.local"

(* CriticalAppConfig with its service (the target host of the app) *)
ServiceApp(n, service, proto, mj, prio) ==
    [name |-> n, service |-> service, protocol |-> proto,
     max_jitter_ms |-> mj, priority |-> prio]

GaugeLines(metric, target, gauge) ==
    IF gauge = None THEN <<>>
    ELSE <<[metric |-> metric, target |-> target, value |-> gauge[1]]>>

(* generate_latest: the gauges that have a labelled child, in the order    *)
(* the module registers them                                               *)
Exposition(p) ==
    GaugeLines("network_probe_tcp_latency_ms", SAFETY_SCANNER_HOST, p.tcp_latency)
      \o GaugeLines("network_probe_tcp_success", SAFETY_SCANNER_HOST, p.tcp_success)
      \o GaugeLines("network_probe_tcp_throughput_mbps", SAFETY_SCANNER_HOST,
                    p.throughput)
      \o GaugeLines("network_probe_udp_latency_ms", ROBOT_CONTROL_HOST, p.udp_latency)
      \o GaugeLines("network_probe_udp_success", ROBOT_CONTROL_HOST, p.udp_success)

(* fetch_and_calculate_jitter: metric_name from app.protocol.upper() *)
MetricName(app) ==
    IF app.protocol \in {"UDP", "udp"} THEN "network_probe_udp_latency_ms"
    ELSE "network_probe_tcp_latency_ms"

(* fetch_and_calculate_jitter: the value of the first line that starts     *)
(* with metric_name + '{', whatever its labels are                         *)
RECURSIVE FirstLine(_, _)
FirstLine(lines, metric_name) ==
    IF lines = <<>> THEN [kind |-> "missing", value |-> 0]
    ELSE IF Head(lines).metric = metric_name
         THEN [kind |-> "number", value |-> Head(lines).value]
         ELSE FirstLine(Tail(lines), metric_name)

(* Two applications of one protocol on different hosts, the first of them  *)
(* on the host the probe measures                                          *)
HostFiles ==
    {[control |-> DefaultControl,
      critical_apps |->
          <<ServiceApp("robot-control", ROBOT_CONTROL_HOST, "UDP", 5, 10),
            ServiceApp("telemetry", "telemetry-svc.default.svc.cluster.local",
                       "UDP", 5, 5)>>,
      best_effort_targets |-> OneTarget],
     [control |-> DefaultControl,
      critical_apps |->
          <<ServiceApp("safety-scanner", SAFETY_SCANNER_HOST, "TCP", 5, 10),
            ServiceApp("plc-gateway", "plc-gateway-svc.default.svc.cluster.local",
                       "TCP", 5, 5)>>,
      best_effort_targets |-> OneTarget]}

(* One iteration of control_loop next to the probe: every GET of /metrics  *)
(* fails or returns the probe's text                                       *)
TickHosts(maxc) ==
    TickWith(maxc,
             {fetch \in [1..Len(config.critical_apps) -> ScrapeOutcomes] :
                 \A i \in DOMAIN fetch :
                     \/ fetch[i].kind = "error"
                     \/ fetch[i] = FirstLine(Exposition(probe),
                                             MetricName(config.critical_apps[i]))},
             TRUE)

InitHosts == Startup(HostFiles, {None}, FALSE)
HostProbeStep == ProbeCycle(ProbeCycles)
HostScrapeStep == TickHosts(ProbeTicks)
NextHosts == HostProbeStep \/ HostScrapeStep
SpecHosts == InitHosts /\ [][NextHosts]_vars

(* The value of the gauge `metric` labelled with `target`, if it exists *)
GaugeLabelled(lines, metric, target) ==
    IF \E i \in 1..Len(lines) : lines[i].metric = metric /\ lines[i].target = target
    THEN Some(lines[CHOOSE i \in 1..Len(lines) :
                 lines[i].metric = metric /\ lines[i].target = target].value)
    ELSE None

(* C34: with two critical applications of one protocol on different target *)
(* hosts, the sample a tick appends to an application's window is the      *)
(* value of the probe gauge labelled with that application's own target.   *)
C34_SampleIsOwnTargetGauge ==
    [][cycle' = cycle + 1 =>
         \A i \in 1..Len(config.critical_apps) :
            LET app == config.critical_apps[i]
            IN  ingested'.fetched[i].kind = "number" =>
                  /\ windows'[app.name][Len(windows'[app.name])]
                         = ingested'.fetched[i].value
                  /\ GaugeLabelled(Exposition(probe), MetricName(app), app.service)
                         = Some(ingested'.fetched[i].value)]_vars

(* The same for the application whose host the probe measures *)
C34_ProbedHostSampleIsOwnGauge ==
    [][cycle' = cycle + 1 =>
         \A i \in 1..Len(config.critical_apps) :
            LET app == config.critical_apps[i]
            IN  (/\ ingested'.fetched[i].kind = "number"
                 /\ app.service \in {ROBOT_CONTROL_HOST, SAFETY_SCANNER_HOST}) =>
                  /\ windows'[app.name][Len(windows'[app.name])]
                         = ingested'.fetched[i].value
                  /\ GaugeLabelled(Exposition(probe), MetricName(app), app.service)
                         = Some(ingested'.fetched[i].value)]_vars

----------------------------------------------------------------------------
(* One burst of measure_udp_rtt, datagram by datagram, on a clock in ms    *)
(* (SpecBurst).  The reflector returns every datagram it receives          *)
(* unchanged, so an echo carries the send_time of its datagram; the        *)
(* network delivers an echo some time after the send, or loses it.         *)
(*   probe.i          datagrams sent so far                                *)
(*   probe.now        time.perf_counter()                                  *)
(*   probe.pending    echoes on their way or in the socket's buffer:       *)
(*                    [id, at], the datagram echoed and its arrival time   *)
(*   probe.latencies  the list `latencies`, each value with the datagram   *)
(*                    it was computed for and the echo recvfrom returned   *)
(*   probe.result     the ProbeResult once the burst has ended             *)

(* Round trips shorter and longer than the receive timeout *)
EchoDelays == {50, 250}
Lost == 0

NoBurst == [i |-> 0, now |-> 0, pending |-> {}, latencies |-> <<>>, result |-> None]

(* recvfrom on a socket with settimeout(timeout): the datagram that is     *)
(* first in the buffer or first to arrive within the timeout, else         *)
(* socket.timeout                                                          *)
RecvWithin(pending, now, timeout) ==
    LET ready == {e \in pending : e.at <= now + timeout}
    IN  IF ready = {} THEN None
        ELSE Some(CHOOSE e \in ready :
                     \A f \in ready : e.at < f.at \/ (e.at = f.at /\ e.id <= f.id))

(* One pass of the loop body: sendto, then recvfrom or socket.timeout *)
SendAndReceive(b, delay) ==
    LET id == b.i + 1
        send_time == b.now
        pending == IF delay = Lost THEN b.pending
                   ELSE b.pending \cup {[id |-> id, at |-> send_time + delay]}
        got == RecvWithin(pending, send_time, UdpTimeoutMs)
    IN  IF got = None
        THEN [b EXCEPT !.i = id, !.now = send_time + UdpTimeoutMs,
                       !.pending = pending]
        ELSE LET recv_time == Max(send_time, got[1].at)
             IN  [b EXCEPT !.i = id, !.now = recv_time,
                           !.pending = pending \ {got[1]},
                           !.latencies = Append(@, [latency_ms |-> recv_time - send_time,
                                                    datagram |-> id,
                                                    echo |-> got[1].id])]

(* After the loop: the mean of latencies, or a failure when it is empty *)
BurstResult(b) ==
    IF b.latencies # <<>>
    THEN ProbeResult(Some(Mean([k \in 1..Len(b.latencies) |->
                                   b.latencies[k].latency_ms])), TRUE)
    ELSE ProbeResult(None, FALSE)

InitBurst ==
    /\ ControllerIdle
    /\ scenario = NoScenario
    /\ probe = NoBurst
    /\ reflector = NoReflector
    /\ orchestrator = NoOrchestrator

BurstDatagram ==
    /\ probe.i < UdpCount
    /\ \E delay \in EchoDelays \cup {Lost} : probe' = SendAndReceive(probe, delay)
    /\ UNCHANGED <<config, windows, current_bandwidths, cycle, udp_jitter_gauge,
                   tcp_jitter_gauge, app_states, decision, patch_calls, shadow,
                   scenario, ingested, running, reflector, orchestrator>>

BurstEnd ==
    /\ probe.i = UdpCount
    /\ probe.result = None
    /\ probe' = [probe EXCEPT !.result = Some(BurstResult(probe))]
    /\ UNCHANGED <<config, windows, current_bandwidths, cycle, udp_jitter_gauge,
                   tcp_jitter_gauge, app_states, decision, patch_calls, shadow,
                   scenario, ingested, running, reflector, orchestrator>>

NextBurst == BurstDatagram \/ BurstEnd
SpecBurst == InitBurst /\ [][NextBurst]_vars

(* C35: every latency value that enters the mean of a UDP burst is the     *)
(* time between sending a datagram and receiving the echo of that same     *)
(* datagram; an echo that arrives after its own receive timeout is never   *)
(* counted as the reply to a later datagram of the burst.                  *)
C35_LatencyIsOfOwnEcho ==
    \A k \in 1..Len(probe.latencies) :
        probe.latencies[k].echo = probe.latencies[k].datagram

----------------------------------------------------------------------------
(* The exported bandwidth gauge (SpecTargets) *)

(* C36: from the end of startup onward, in every state, the exported gauge *)
(* flowmanager_bandwidth_limit_mbps{deployment,namespace} equals the       *)
(* controller's in-memory bandwidth for that target, also before the first *)
(* successful patch and after failed patches.                              *)
C36_GaugeEqualsMemory ==
    \A t \in Targets :
        /\ KeyOf(t) \in DOMAIN shadow.bandwidth_limit_gauge
        /\ shadow.bandwidth_limit_gauge[KeyOf(t)] = current_bandwidths[t.deployment]

(* With distinct deployment names, a gauge child that exists equals the    *)
(* in-memory bandwidth of its target                                       *)
C36_ExistingGaugeEqualsMemory ==
    (\A t, u \in Targets : t.deployment = u.deployment => t = u)
        => \A t \in Targets :
              KeyOf(t) \in DOMAIN shadow.bandwidth_limit_gauge
                 => shadow.bandwidth_limit_gauge[KeyOf(t)]
                        = current_bandwidths[t.deployment]

----------------------------------------------------------------------------
(* The hysteresis controller (src/controller/ml_controller.py), SpecCooldown. *)
(* Jitter and latency are in thousandths of a ms, time in seconds,         *)
(* bandwidth in Mbps.  The controller's fields are kept in `scenario`:     *)
(*   current_bandwidth, smoothed_jitter, smoothed_latency,                 *)
(*   last_change_time, last_bandwidth_change      as in __init__           *)
(*   now           time.time()                                             *)
(*   action, change  what determine_bandwidth_action returned last         *)
(*   iterations    passes of the loop of run() that obtained metrics       *)
(*   increased_at  history: the time of the last increase applied to the   *)
(*                 deployment, while every iteration since had good        *)
(*                 metrics                                                 *)

TARGET_JITTER_MS == 2000
TARGET_LATENCY_MS == 10000
MIN_BANDWIDTH_MBPS == 10
MAX_BANDWIDTH_MBPS == 1000
AGGRESSIVE_DECREASE_MBPS == 100
GENTLE_DECREASE_MBPS == 20
INCREASE_STEP_MBPS == 15
UPDATE_THRESHOLD_MBPS == 5
CONTROL_INTERVAL_SEC == 5
COOLDOWN_PERIOD_SEC == 30
CRITICAL_JITTER_MULTIPLIER == 3
METRICS_UNAVAILABLE_RETRY_DELAY == 30

HysteresisIterations == 5

(* BandwidthController.__init__ *)
NoHysteresis ==
    [current_bandwidth |-> 100, smoothed_jitter |-> None, smoothed_latency |-> None,
     last_change_time |-> None, last_bandwidth_change |-> 0,
     now |-> 0, action |-> "none", change |-> 0, iterations |-> 0,
     increased_at |-> None]

(* raw * alpha + old * (1 - alpha) for EWMA_ALPHA = 0.7, rounded down to a *)
(* thousandth of a ms                                                      *)
Ewma(raw, old) == (raw * 7 + old * 3) \div 10

apply_ewma_smoothing(h, raw_jitter, raw_latency) ==
    IF h.smoothed_jitter = None
    THEN [h EXCEPT !.smoothed_jitter = Some(raw_jitter),
                   !.smoothed_latency = Some(raw_latency)]
    ELSE [h EXCEPT !.smoothed_jitter = Some(Ewma(raw_jitter, @[1])),
                   !.smoothed_latency = Some(Ewma(raw_latency, @[1]))]

should_respect_cooldown(h, current_jitter) ==
    IF h.last_change_time = None THEN FALSE
    ELSE IF h.last_bandwidth_change <= 0 THEN FALSE
    ELSE LET time_since_change == h.now - h.last_change_time[1]
             in_cooldown == time_since_change < COOLDOWN_PERIOD_SEC
             critical_jitter_threshold == TARGET_JITTER_MS * CRITICAL_JITTER_MULTIPLIER
             jitter_is_critical == current_jitter >= critical_jitter_threshold
         IN  IF in_cooldown /\ jitter_is_critical THEN FALSE ELSE in_cooldown

determine_bandwidth_action(h, jitter, latency) ==
    LET high_jitter == jitter > TARGET_JITTER_MS
        high_latency == latency > TARGET_LATENCY_MS
    IN  IF high_jitter
        THEN [action |-> "CONGESTION_THROTTLE", change |-> 0 - AGGRESSIVE_DECREASE_MBPS]
        ELSE IF high_latency /\ ~high_jitter
        THEN [action |-> "LATENCY_GENTLE_THROTTLE", change |-> 0 - GENTLE_DECREASE_MBPS]
        ELSE IF ~high_jitter /\ ~high_latency
        THEN IF ~should_respect_cooldown(h, jitter)
             THEN [action |-> "INCREASE", change |-> INCREASE_STEP_MBPS]
             ELSE [action |-> "COOLDOWN_WAIT", change |-> 0]
        ELSE [action |-> "MAINTAIN", change |-> 0]

(* adjust_bandwidth: the new bandwidth, and the direction of the decided   *)
(* change stored in last_bandwidth_change                                  *)
adjust_bandwidth(h, jitter, latency) ==
    LET d == determine_bandwidth_action(h, jitter, latency)
        new_bandwidth == Max(MIN_BANDWIDTH_MBPS,
                             Min(h.current_bandwidth + d.change, MAX_BANDWIDTH_MBPS))
    IN  [new_bandwidth |-> new_bandwidth, action |-> d.action, change |-> d.change,
         last_bandwidth_change |-> IF d.change > 0 THEN 1
                                   ELSE IF d.change < 0 THEN 0 - 1 ELSE 0]

(* One pass of the loop of run() that obtained metrics: smoothing, the     *)
(* decision, the update when the change reaches the threshold, the sleep   *)
RunIteration(h, raw_jitter, raw_latency, update_ok) ==
    LET s == apply_ewma_smoothing(h, raw_jitter, raw_latency)
        a == adjust_bandwidth(s, s.smoothed_jitter[1], s.smoothed_latency[1])
        delta == a.new_bandwidth - h.current_bandwidth
        bandwidth_change == IF delta >= 0 THEN delta ELSE 0 - delta
        updated == bandwidth_change >= UPDATE_THRESHOLD_MBPS /\ update_ok
        good == /\ ~(s.smoothed_jitter[1] > TARGET_JITTER_MS)
                /\ ~(s.smoothed_latency[1] > TARGET_LATENCY_MS)
    IN  [s EXCEPT !.last_bandwidth_change = a.last_bandwidth_change,
                  !.last_change_time = IF updated THEN Some(h.now) ELSE @,
                  !.current_bandwidth = IF updated THEN a.new_bandwidth ELSE @,
                  !.action = a.action,
                  !.change = a.change,
                  !.iterations = @ + 1,
                  !.increased_at = IF updated /\ a.change > 0 THEN Some(h.now)
                                   ELSE IF good THEN @ ELSE None,
                  !.now = @ + CONTROL_INTERVAL_SEC]

(* Raw metrics: jitter and latency below and above their targets *)
RawJitters == {1000, 8000}
RawLatencies == {5000, 20000}

InitCooldown ==
    /\ ControllerIdle
    /\ NoPeers
    /\ scenario = NoHysteresis

ControlIteration ==
    /\ scenario.iterations < HysteresisIterations
    /\ \E raw_jitter \in RawJitters, raw_latency \in RawLatencies,
          update_ok \in BOOLEAN :
         scenario' = RunIteration(scenario, raw_jitter, raw_latency, update_ok)
    /\ UNCHANGED <<config, windows, current_bandwidths, cycle, udp_jitter_gauge,
                   tcp_jitter_gauge, app_states, decision, patch_calls, shadow,
                   ingested, running, peers>>

(* get_latency_metrics raises RuntimeError: the pass sleeps and retries *)
MetricsUnavailable ==
    /\ scenario.iterations < HysteresisIterations
    /\ scenario.now < HysteresisIterations * CONTROL_INTERVAL_SEC
    /\ scenario' = [scenario EXCEPT !.now = @ + METRICS_UNAVAILABLE_RETRY_DELAY]
    /\ UNCHANGED <<config, windows, current_bandwidths, cycle, udp_jitter_gauge,
                   tcp_jitter_gauge, app_states, decision, patch_calls, shadow,
                   ingested, running, peers>>

NextCooldown == ControlIteration \/ MetricsUnavailable
SpecCooldown == InitCooldown /\ [][NextCooldown]_vars

Iterated == scenario'.iterations = scenario.iterations + 1

(* C37: after a bandwidth increase has been applied to the deployment, no  *)
(* further increase is decided until COOLDOWN_PERIOD_SEC has elapsed since *)
(* that update, whatever iterations with good metrics lie in between;      *)
(* decreases are never delayed by the cooldown.                            *)
C37_IncreaseWaitsForCooldown ==
    [][Iterated =>
         /\ (scenario.increased_at # None /\ scenario'.change > 0)
               => scenario.now - scenario.increased_at[1] >= COOLDOWN_PERIOD_SEC
         /\ (\/ scenario'.smoothed_jitter[1] > TARGET_JITTER_MS
             \/ scenario'.smoothed_latency[1] > TARGET_LATENCY_MS)
               => scenario'.change < 0]_vars

(* Decreases are never delayed by the cooldown *)
C37_DecreaseIsNeverDelayed ==
    [][Iterated =>
         ((\/ scenario'.smoothed_jitter[1] > TARGET_JITTER_MS
           \/ scenario'.smoothed_latency[1] > TARGET_LATENCY_MS)
               => scenario'.change < 0)]_vars

(* The iteration that directly follows a decided and applied increase      *)
(* within the cooldown does wait                                           *)
C37_NextIterationWaits ==
    [][(/\ Iterated
        /\ scenario.change > 0
        /\ scenario.last_change_time # None
        /\ scenario.now - scenario.last_change_time[1] < COOLDOWN_PERIOD_SEC)
            => scenario'.change <= 0]_vars

====
